---- MODULE Spec2Model ----
(***************************************************************************)
(* Model of the playback engine of tera-guide-core: class AudioPlayer      *)
(* (persistent cscript worker, src/unnamed/part_004) as it is driven by    *)
(* OnlineTTS.playAudio / OnlineTTS.stop (src/lib/onlineTTS.js).            *)
(*                                                                         *)
(* Scheduling model (Node.js event loop).  Every action below is one       *)
(* macrotask: a public call (play, queueAndPlay, stop), a timer callback,  *)
(* a stdout 'data' event or a 'close' event, followed by the microtasks it *)
(* makes runnable (the continuations of `await this.play(...)` in the      *)
(* drain loop _playQueue).  The worker processes run concurrently with the *)
(* engine; their steps (finish a sound, read QUIT, crash) are actions of   *)
(* their own.  A worker is always spawned successfully (cscript.exe is     *)
(* present on the target platform) and writing a string to a child's stdin *)
(* never throws synchronously.                                             *)
(*                                                                         *)
(* The second half of the module is the synthesis client, class OnlineTTS  *)
(* (src/lib/onlineTTS.js): speak and generateAudio with the cache of audio *)
(* files and the HTTPS request to the synthesis API.  A call is one action *)
(* (the async function runs up to its first pending await within the turn  *)
(* of the caller); the events of a request ('end' of a 200 response, a     *)
(* non-200 status, 'error', the 10 s timeout) are actions of their own.    *)
(***************************************************************************)
EXTENDS Integers, Sequences, FiniteSets, TLC

\* Number of playback requests (play or queueAndPlay calls) in one run.
MaxJobs == 3

Jobs == 1..MaxJobs
\* A worker is spawned only inside play(), once per call at most.
Workers == 1..MaxJobs
\* The line "QUIT" on a worker's stdin; every other line is the job it encodes.
QUIT == 0

\* Number of speak / generateAudio calls in one run.
MaxCalls == 2

VARIABLES
    queue,            \* this.queue: jobs waiting for the drain loop
    isPlaying,        \* this.isPlaying
    isProcessing,     \* this._isProcessing
    process,          \* this.process: 0 (null) or the worker it refers to
    idleTimer,        \* TRUE while the timeout of _resetIdleTimer is pending
    pendingResolves,  \* this.pendingResolves: jobs whose {resolve, reject} wait
    fut,              \* state of the promise returned by play(job)
    awaiter,          \* awaiter[j] = the queueAndPlay call whose drain loop awaits play(j), or 0
    qfut,             \* state of the promise returned by queueAndPlay(job)
    workers,          \* the cscript processes: status, unread stdin lines, undelivered stdout lines
    kind,             \* how a job was requested: "none" (not yet), "play", "queue"
    exists,           \* fs.existsSync(filePath) of the job
    writes,           \* history: the job lines written to a stdin, in order, as <<job, worker>>
    settings,         \* OnlineTTS this.settings: enabled, apiKey, voices, defaultVoice
    dirs,             \* the voice directories that exist under the cache root
    cache,            \* the audio files under the cache root
    calls,            \* the speak / generateAudio calls made so far, in order
    speech,           \* the Speech object: its language, its client, the stored settings
    last              \* the last call of a configuration or text function: name, arguments, result

ttsVars == <<settings, dirs, cache, calls>>

speechVars == <<speech, last>>

playerVars == <<queue, isPlaying, isProcessing, process, idleTimer, pendingResolves, fut,
                awaiter, qfut, workers, kind, exists, writes>>

vars == <<queue, isPlaying, isProcessing, process, idleTimer, pendingResolves, fut,
          awaiter, qfut, workers, kind, exists, writes, settings, dirs, cache, calls,
          speech, last>>

\* The whole state as one record, so that handlers compose as functions.
St ==
    [queue |-> queue, isPlaying |-> isPlaying, isProcessing |-> isProcessing,
     process |-> process, idleTimer |-> idleTimer, pendingResolves |-> pendingResolves,
     fut |-> fut, awaiter |-> awaiter, qfut |-> qfut, workers |-> workers,
     kind |-> kind, exists |-> exists, writes |-> writes]

Become(t) ==
    /\ queue' = t.queue
    /\ isPlaying' = t.isPlaying
    /\ isProcessing' = t.isProcessing
    /\ process' = t.process
    /\ idleTimer' = t.idleTimer
    /\ pendingResolves' = t.pendingResolves
    /\ fut' = t.fut
    /\ awaiter' = t.awaiter
    /\ qfut' = t.qfut
    /\ workers' = t.workers
    /\ kind' = t.kind
    /\ exists' = t.exists
    /\ writes' = t.writes

NoWorker == [status |-> "none", stdin |-> <<>>, out |-> <<>>, why |-> "none"]

ClosedWorker == [status |-> "closed", stdin |-> <<>>, out |-> <<>>, why |-> "none"]

\* The state after `new AudioPlayer()`.
AudioPlayerInit ==
    /\ queue = <<>>
    /\ isPlaying = FALSE
    /\ isProcessing = FALSE
    /\ process = 0
    /\ idleTimer = FALSE
    /\ pendingResolves = <<>>
    /\ fut = [j \in Jobs |-> "none"]
    /\ awaiter = [j \in Jobs |-> 0]
    /\ qfut = [j \in Jobs |-> "none"]
    /\ workers = [w \in Workers |-> NoWorker]
    /\ kind = [j \in Jobs |-> "none"]
    /\ exists = [j \in Jobs |-> TRUE]
    /\ writes = <<>>

\* defaultConfig of the constructor. The key is only tested for being empty:
\* FALSE is "", TRUE a key. The voices are the entries of the object in
\* insertion order. The rate is counted in tenths.
defaultConfig ==
    [enabled |-> FALSE, apiKey |-> FALSE, apiEndpoint |-> "https://api.espai.fun/ai_api/tts",
     voices |-> <<>>, defaultVoice |-> "", sampleRate |-> 24000, volume |-> 90,
     rate |-> 10, cacheDir |-> "tts_cache"]

\* No Speech object has been made.
NoSpeech == [onlineTTS |-> FALSE]

\* No configuration or text function has been called.
NoCall == [op |-> "none"]

\* The state after `new OnlineTTS()` without user settings, on an empty cache.
Init ==
    /\ AudioPlayerInit
    /\ settings = defaultConfig
    /\ dirs = {}
    /\ cache = {}
    /\ calls = <<>>
    /\ speech = NoSpeech
    /\ last = NoCall

----------------------------------------------------------------------------
\* Helpers on sequences and ids

Range(q) == {q[i] : i \in 1..Len(q)}

Spawned(s) == {w \in Workers : s.workers[w].status # "none"}

\* The id the next spawned worker gets.
NextWorker(s) == Cardinality(Spawned(s)) + 1

\* The id the next request gets.
NextJob == Cardinality({j \in Jobs : kind[j] # "none"}) + 1

----------------------------------------------------------------------------
\* Engine code, as functions from state to state

\* this.process.stdin.write(line): the line joins the unread lines of the
\* worker's stdin.  The lines a worker has not read when it exits, and those
\* written to it afterwards, are never read.
stdinWrite(s, w, line) ==
    LET s1 == [s EXCEPT !.workers[w].stdin = Append(@, line)]
    IN IF line = QUIT THEN s1 ELSE [s1 EXCEPT !.writes = Append(@, <<line, w>>)]

startProcess(s) ==
    IF s.process # 0 THEN s
    ELSE LET w == NextWorker(s)
         IN [s EXCEPT !.process = w,
                      !.workers[w] = [status |-> "alive", stdin |-> <<>>,
                                      out |-> <<>>, why |-> "none"]]

killProcess(s) ==
    LET s1 == IF s.process # 0
              THEN [stdinWrite(s, s.process, QUIT) EXCEPT !.process = 0]
              ELSE s
    IN [s1 EXCEPT !.idleTimer = FALSE]

\* Mutant of play: the file is looked for only after the worker has been
\* started and the idle timer cleared.
play_checkAfterStart(s, j) ==
    LET s1 == [startProcess(s) EXCEPT !.idleTimer = FALSE]
    IN IF ~s.exists[j] THEN [s1 EXCEPT !.fut[j] = "rejected"]
       ELSE LET s2 == [s1 EXCEPT !.isPlaying = TRUE,
                                 !.pendingResolves = Append(@, j),
                                 !.fut[j] = "pending"]
            IN stdinWrite(s2, s2.process, j)

\* The executor of the promise play(filePath) returns.
play(s, j) ==
    IF ~s.exists[j] THEN [s EXCEPT !.fut[j] = "rejected"]
    ELSE LET s1 == startProcess(s)
             s2 == [s1 EXCEPT !.idleTimer = FALSE,
                              !.isPlaying = TRUE,
                              !.pendingResolves = Append(@, j),
                              !.fut[j] = "pending"]
         IN stdinWrite(s2, s2.process, j)

\* One turn of the loop of _playQueue for the drain loop started by the
\* queueAndPlay call `owner`, run until it awaits or returns.
playQueueStep(s, owner) ==
    IF s.queue = <<>>
    THEN [s EXCEPT !.isProcessing = FALSE, !.qfut[owner] = "resolved"]
    ELSE LET j == Head(s.queue)
             s1 == play([s EXCEPT !.queue = Tail(@)], j)
         IN IF s1.fut[j] = "pending" THEN [s1 EXCEPT !.awaiter[j] = owner] ELSE s1

\* The microtask queue: the drain loops whose awaited promise has settled,
\* in the order of settlement.  A loop whose play() rejected at once (file
\* missing) is runnable again after the loops already waiting.
RECURSIVE RunMicro(_, _)
RunMicro(s, mq) ==
    IF mq = <<>> THEN s
    ELSE LET owner == Head(mq)
             again == s.queue # <<>> /\ ~s.exists[Head(s.queue)]
             s1 == playQueueStep(s, owner)
         IN RunMicro(s1, IF again THEN Append(Tail(mq), owner) ELSE Tail(mq))

\* The drain loops resumed by the settlement of the promises of `settled`.
RECURSIVE Resumed(_, _)
Resumed(s, settled) ==
    IF settled = <<>> THEN <<>>
    ELSE IF s.awaiter[Head(settled)] # 0
         THEN <<s.awaiter[Head(settled)]>> \o Resumed(s, Tail(settled))
         ELSE Resumed(s, Tail(settled))

ClearAwaiters(s, settled) ==
    [s EXCEPT !.awaiter = [j \in Jobs |-> IF j \in Range(settled) THEN 0 ELSE @[j]]]

Settle(s, settled) == RunMicro(ClearAwaiters(s, settled), Resumed(s, settled))

\* Mutant of queueAndPlay: the drain loop is started without looking at
\* isPlaying and _isProcessing.
queueAndPlay_noLock(s, j) ==
    LET s1 == [s EXCEPT !.queue = Append(@, j)]
    IN RunMicro([s1 EXCEPT !.isProcessing = TRUE, !.qfut[j] = "pending"], <<j>>)

queueAndPlay(s, j) ==
    LET s1 == [s EXCEPT !.queue = Append(@, j)]
    IN IF ~s1.isPlaying /\ ~s1.isProcessing
       THEN RunMicro([s1 EXCEPT !.isProcessing = TRUE, !.qfut[j] = "pending"], <<j>>)
       ELSE [s1 EXCEPT !.qfut[j] = "resolved"]

stop(s) ==
    LET s1 == killProcess([s EXCEPT !.queue = <<>>])
    IN [s1 EXCEPT !.isPlaying = FALSE, !.isProcessing = FALSE]

\* The stdout 'data' handler of worker w on a chunk of k DONE lines.
RECURSIVE dataLines(_, _, _)
dataLines(s, tags, settled) ==
    IF tags = <<>> THEN <<s, settled>>
    ELSE IF s.pendingResolves = <<>>
         THEN dataLines(s, Tail(tags), settled)
         ELSE LET item == Head(s.pendingResolves)
                  s1 == [s EXCEPT !.pendingResolves = Tail(@),
                                  !.isPlaying = FALSE,
                                  !.fut[item] = "resolved",
                                  !.idleTimer = TRUE]
              IN dataLines(s1, Tail(tags), Append(settled, item))

dataHandler(s, w, k) ==
    LET tags == SubSeq(s.workers[w].out, 1, k)
        s0 == [s EXCEPT !.workers[w].out = SubSeq(@, k + 1, Len(@))]
        r == dataLines(s0, tags, <<>>)
    IN Settle(r[1], r[2])

\* Mutant of the 'close' handler: it also empties the queue, so that the
\* resumed drain loop finds nothing to go on with.
closeHandler_failQueued(s, w) ==
    LET settled == s.pendingResolves
        s1 == [s EXCEPT !.process = 0,
                        !.queue = <<>>,
                        !.pendingResolves = <<>>,
                        !.fut = [j \in Jobs |-> IF j \in Range(settled)
                                                THEN "rejected" ELSE @[j]]]
    IN Settle(s1, settled)

\* The 'close' handler of worker w.
closeHandler(s, w) ==
    LET settled == s.pendingResolves
        s1 == [s EXCEPT !.process = 0,
                        !.pendingResolves = <<>>,
                        !.fut = [j \in Jobs |-> IF j \in Range(settled)
                                                THEN "rejected" ELSE @[j]]]
    IN Settle(s1, settled)

----------------------------------------------------------------------------
\* Actions: public calls

\* OnlineTTS.playAudio(filePath) -> audioPlayer.play(filePath)
Play ==
    /\ NextJob <= MaxJobs
    /\ \E e \in BOOLEAN :
        LET j == NextJob
            s == [St EXCEPT !.kind[j] = "play", !.exists[j] = e]
        IN Become(play(s, j))
    /\ UNCHANGED ttsVars
    /\ UNCHANGED speechVars

QueueAndPlay ==
    /\ NextJob <= MaxJobs
    /\ \E e \in BOOLEAN :
        LET j == NextJob
            s == [St EXCEPT !.kind[j] = "queue", !.exists[j] = e]
        IN Become(queueAndPlay(s, j))
    /\ UNCHANGED ttsVars
    /\ UNCHANGED speechVars

\* OnlineTTS.stop() -> audioPlayer.stop()
Stop ==
    /\ Become(stop(St))
    /\ UNCHANGED ttsVars
    /\ UNCHANGED speechVars

\* Actions: callbacks of the event loop

IdleTimeout ==
    /\ idleTimer
    /\ Become(killProcess(St))
    /\ UNCHANGED ttsVars
    /\ UNCHANGED speechVars

StdoutData ==
    /\ \E w \in Workers : \E k \in 1..Len(workers[w].out) :
         /\ workers[w].status \in {"alive", "exited"}
         /\ Become(dataHandler(St, w, k))
    /\ UNCHANGED ttsVars
    /\ UNCHANGED speechVars

\* 'close' is emitted once the process has ended and its stdout has been read.
Close ==
    /\ \E w \in Workers :
         /\ workers[w].status = "exited"
         /\ workers[w].out = <<>>
         /\ Become(closeHandler([St EXCEPT !.workers[w] = ClosedWorker], w))
    /\ UNCHANGED ttsVars
    /\ UNCHANGED speechVars

\* Actions: the worker script (the loop of the VBS player)

\* The sound of the first unread line has played to its end: WriteLine "DONE".
WorkerDone ==
    \E w \in Workers :
        /\ workers[w].status = "alive"
        /\ workers[w].stdin # <<>>
        /\ Head(workers[w].stdin) # QUIT
        /\ workers' = [workers EXCEPT ![w].stdin = Tail(@),
                                      ![w].out = Append(@, Head(workers[w].stdin))]
        /\ UNCHANGED <<queue, isPlaying, isProcessing, process, idleTimer,
                       pendingResolves, fut, awaiter, qfut, kind, exists, writes>>
        /\ UNCHANGED ttsVars
        /\ UNCHANGED speechVars

\* If Line = "QUIT" Then Exit Do
WorkerQuit ==
    \E w \in Workers :
        /\ workers[w].status = "alive"
        /\ workers[w].stdin # <<>>
        /\ Head(workers[w].stdin) = QUIT
        /\ workers' = [workers EXCEPT ![w].status = "exited", ![w].stdin = Tail(@),
                                      ![w].why = "quit"]
        /\ UNCHANGED <<queue, isPlaying, isProcessing, process, idleTimer,
                       pendingResolves, fut, awaiter, qfut, kind, exists, writes>>
        /\ UNCHANGED ttsVars
        /\ UNCHANGED speechVars

\* The worker exits without having been asked to (crash, killed from outside).
WorkerCrash ==
    \E w \in Workers :
        /\ workers[w].status = "alive"
        /\ workers' = [workers EXCEPT ![w].status = "exited", ![w].why = "crash"]
        /\ UNCHANGED <<queue, isPlaying, isProcessing, process, idleTimer,
                       pendingResolves, fut, awaiter, qfut, kind, exists, writes>>
        /\ UNCHANGED ttsVars
        /\ UNCHANGED speechVars

Next ==
    \/ Play
    \/ QueueAndPlay
    \/ Stop
    \/ IdleTimeout
    \/ StdoutData
    \/ Close
    \/ WorkerDone
    \/ WorkerQuit
    \/ WorkerCrash

Spec == Init /\ [][Next]_vars

----------------------------------------------------------------------------
\* Scenarios: the runs in which some of the events do not occur

\* No stop() and no unexpected exit: a worker exits only after the idle timer
\* has asked it to quit.
NextIdle ==
    \/ Play
    \/ QueueAndPlay
    \/ IdleTimeout
    \/ StdoutData
    \/ Close
    \/ WorkerDone
    \/ WorkerQuit

SpecIdle == Init /\ [][NextIdle]_vars

\* No stop() and no idle expiry: a worker exits only unexpectedly.
NextCrash ==
    \/ Play
    \/ QueueAndPlay
    \/ StdoutData
    \/ Close
    \/ WorkerDone
    \/ WorkerCrash

SpecCrash == Init /\ [][NextCrash]_vars

\* No idle expiry and no unexpected exit: a worker exits only after stop()
\* has asked it to quit.
NextStop ==
    \/ Play
    \/ QueueAndPlay
    \/ Stop
    \/ StdoutData
    \/ Close
    \/ WorkerDone
    \/ WorkerQuit

SpecStop == Init /\ [][NextStop]_vars

\* The runs of SpecIdle in which the event loop and the worker go on: an
\* event that stays ready has its callback run, and a worker that has a
\* line to read reads it. The public calls come whenever the callers like.
Fairness ==
    /\ WF_vars(IdleTimeout)
    /\ WF_vars(StdoutData)
    /\ WF_vars(Close)
    /\ WF_vars(WorkerDone)
    /\ WF_vars(WorkerQuit)

SpecLive == SpecIdle /\ Fairness

----------------------------------------------------------------------------
\* Terms of the properties

\* The jobs whose line has been written to a worker.
Written == {writes[i][1] : i \in 1..Len(writes)}

\* The worker a job's line was written to, 0 if it was not written.
WorkerOf(j) ==
    IF j \in Written
    THEN writes[CHOOSE i \in 1..Len(writes) : writes[i][1] = j][2]
    ELSE 0

\* The jobs a running worker has still to render (the first of them is the
\* sound that is playing).
Unplayed(w) ==
    IF workers[w].status = "alive" THEN Range(workers[w].stdin) \ {QUIT} ELSE {}

\* In flight: the line has been written to a worker and the completion line
\* has not been received (the worker has not written it yet, or it is still
\* unread in the pipe).
InFlight ==
    {j \in Jobs : \E w \in Workers :
        \/ j \in Unplayed(w)
        \/ workers[w].status \in {"alive", "exited"} /\ j \in Range(workers[w].out)}

\* The step is the 'close' event of worker w.
ClosesIn(w) == workers[w].status = "exited" /\ workers'[w].status = "closed"

\* The step resolves the promise of play(j).
ResolvesIn(j) == fut[j] = "pending" /\ fut'[j] = "resolved"

\* The step spawns a worker.
SpawnsIn == \E w \in Workers : workers[w].status = "none" /\ workers'[w].status # "none"

----------------------------------------------------------------------------
\* C1: at most one playback job is in flight at any time, whether the
\* requests come through play or through queueAndPlay.
C1_AtMostOneInFlight == Cardinality(InFlight) <= 1

\* C3: at most one worker process is alive at any time, and every live
\* worker is the one the engine's process handle refers to.
C3_LiveWorkerIsOwned == \A w \in Workers : workers[w].status = "alive" => process = w

\* C4: the promise of a job is resolved only by the completion line that the
\* worker wrote for that same job: the DONE line of the job is among the
\* lines of its worker that the resolving step reads.
C4_CompletionMatchesJob ==
    [][\A j \in Jobs : ResolvesIn(j) =>
          /\ WorkerOf(j) # 0
          /\ j \in Range(workers[WorkerOf(j)].out)
          /\ j \notin Range(workers'[WorkerOf(j)].out)]_vars

\* C5: after the idle timer has fired the worker is absent, and a playback
\* request made afterwards, at whatever moment, is completed by a new worker:
\* in the runs without stop() and without an unexpected exit, no request for
\* an existing file is ever rejected.
C5_RequestAfterIdleCompletes ==
    \A j \in Jobs : kind[j] # "none" /\ exists[j] => fut[j] # "rejected"

\* C6: when a worker process has exited with jobs it had not completed, its
\* 'close' leaves the promise of each of these jobs rejected, and no job is
\* written to a worker twice.
C6_ExitFailsInFlight ==
    [][/\ \A w \in Workers : ClosesIn(w) =>
             \A j \in Range(workers[w].stdin) \ {QUIT} : fut'[j] = "rejected"
       /\ \A i, k \in 1..Len(writes') : writes'[i][1] = writes'[k][1] => i = k]_vars

\* A drain loop is suspended in `await this.play(...)` on a job in flight.
DrainAwaits == \E j \in Range(pendingResolves) : awaiter[j] # 0

\* The step is the 'close' event of a worker that exited unexpectedly while
\* a drain loop was awaiting its job and further jobs were queued.
CrashClosesMidDrain ==
    /\ \E w \in Workers : ClosesIn(w) /\ workers[w].why = "crash"
    /\ DrainAwaits
    /\ queue # <<>>

C8_RestartableAfterExit ==
    [][\A j \in Jobs :
          /\ kind[j] = "none" /\ kind'[j] = "queue" /\ exists'[j]
          /\ process = 0
          /\ \E w \in Workers : workers[w].status = "closed"
          => SpawnsIn /\ j \in Written']_vars

\* The worker has been asked to quit, or has gone already.
Quitted(w) == QUIT \in Range(workers[w].stdin) \/ workers[w].status \in {"exited", "closed"}

\* C9: every promise that was pending when stop() was called fails, none of
\* them is resolved successfully (SpecStop: a worker is asked to quit by stop()
\* only, so a pending job whose worker has been asked to quit was pending at
\* a stop() call).
C9_StopFailsPending ==
    [][\A j \in Jobs : ResolvesIn(j) => ~Quitted(WorkerOf(j))]_vars

\* C10: a play request for a file that does not exist is rejected before
\* reaching the worker: no worker is started, nothing is written to a worker
\* and isPlaying, the pending jobs, the idle timer and the process handle are
\* unchanged; no job of a missing file is ever written to a worker, whoever
\* calls play for it.
C10_MissingFileRejected ==
    [][/\ \A j \in Jobs : kind[j] = "none" /\ kind'[j] = "play" /\ ~exists'[j] =>
             /\ fut'[j] = "rejected"
             /\ UNCHANGED <<isPlaying, pendingResolves, idleTimer, process, workers,
                            writes, queue, isProcessing>>
       /\ \A j \in Jobs : kind'[j] # "none" /\ ~exists'[j] =>
             /\ j \notin Written'
             /\ j \notin Range(pendingResolves')
             /\ fut'[j] \in {"none", "rejected"}]_vars

\* C10 witness: while job 1 is in flight, play was called for job 2, whose
\* file is missing, and rejected.
C10_Witness ==
    /\ kind[2] = "play" /\ ~exists[2] /\ fut[2] = "rejected"
    /\ fut[1] = "pending" /\ isPlaying /\ process = 1
    /\ pendingResolves = <<1>>

\* The run so far is the plain one: every request came through queueAndPlay
\* and the first worker, if started, has neither exited nor been asked to quit
\* (no stop() while it ran, no idle expiry).
Clean ==
    /\ \A j \in Jobs : kind[j] # "play"
    /\ \A w \in Workers : w # 1 => workers[w].status = "none"
    /\ workers[1].status \in {"none", "alive"}
    /\ QUIT \notin Range(workers[1].stdin)

\* C2: when queueAndPlay is called again before the first job completes, one
\* line per job is written to the worker, in the order of the calls, and a
\* line is written only after the completion line of the line before it has
\* been received: the jobs written before the last one are all completed, and
\* no job waits in the queue unless a drain loop is awaiting a job in flight.
C2_QueueOrderNoOverlap ==
    Clean =>
        /\ \A i, k \in 1..Len(writes) : i < k => writes[i][1] < writes[k][1]
        /\ \A i \in 1..(Len(writes) - 1) :
              fut[writes[i][1]] = "resolved" /\ writes[i][1] \notin InFlight
        /\ \A j \in Jobs : kind[j] = "queue" /\ exists[j] =>
              j \in Written \/ j \in Range(queue)
        /\ queue # <<>> => DrainAwaits /\ isProcessing
        /\ Cardinality(InFlight) <= 1

\* C2 witness: the second call was made while job 1 was in flight; job 1 has
\* completed and the drain loop of the first call has written job 2.
C2_Witness ==
    /\ Clean
    /\ writes = <<<<1, 1>>, <<2, 1>>>>
    /\ fut[1] = "resolved" /\ fut[2] = "pending"
    /\ awaiter[2] = 1

\* The step is the callback of the idle timer asking the worker to quit.
TimerQuitsIn == idleTimer /\ process # 0 /\ Become(killProcess(St))

\* C11: the idle timer is armed when a job completes and cancelled by every
\* new submission, so that its callback never asks the worker to quit while
\* a job is in flight (written to a worker, completion line not yet received).
C11_NoQuitWhileInFlight == [][TimerQuitsIn => InFlight = {}]_vars

\* C12: the promise returned by queueAndPlay for a job settles only after
\* that job has completed or failed: it is never resolved while the job is
\* waiting in the queue or in flight.
C12_QueueFutureAfterJob ==
    \A j \in Jobs : kind[j] = "queue" /\ qfut[j] = "resolved" =>
        /\ fut[j] \in {"resolved", "rejected"}
        /\ j \notin Range(queue)

----------------------------------------------------------------------------
\* The synthesis client: data

\* Voice names: "Anna" consists of letters only, "v2" does not.
Names == {"Anna", "v2"}

\* Provider ids of voices; "" is the id of a voice that has none (the value
\* is falsy in the code, like the undefined of a missing key).
Ids == {"", "id1"}

\* The voice argument of a call: a name, or left out.
undefined == "undefined"

VoiceArgs == Names \cup {undefined}

\* Texts are sequences of characters. The texts handed to the functions of
\* the model hold no "x", "%", "-" and no capital letter, so that of the
\* replacements of processNumberFormats only the ordinal one (227) and the
\* last one (237) can match, and /\bAoE\b/ (134) never does.
Digits == {"0", "1", "2", "3", "4", "5", "6", "7", "8", "9"}

Letters ==
    {"a", "b", "c", "d", "e", "f", "g", "h", "i", "j", "k", "l", "m", "n", "o", "p", "q",
     "r", "s", "t", "u", "v", "w", "x", "y", "z"}

\* \w
WordChars == Letters \cup Digits \cup {"_"}

\* \s
Whitespace == {" ", "\t"}

\* The ASCII characters of the class removed by _textToFileName (86).
Punctuation == {".", ",", "!", "?", ";", ":", "\"", "'", "(", ")", "[", "]"}

\* The characters of the class replaced by "_" (87).
Reserved == {"\\", "/", ":", "*", "?", "\"", "<", ">", "|"}

digitValue ==
    "0" :> 0 @@ "1" :> 1 @@ "2" :> 2 @@ "3" :> 3 @@ "4" :> 4 @@ "5" :> 5 @@ "6" :> 6
    @@ "7" :> 7 @@ "8" :> 8 @@ "9" :> 9

digitChar(v) == <<"0", "1", "2", "3", "4", "5", "6", "7", "8", "9">>[v + 1]

Front(s) == SubSeq(s, 1, Len(s) - 1)

Last(s) == s[Len(s)]

\* Texts spoken in the model: "hit 3!" and "{name}".
Texts == {<<"h", "i", "t", " ", "3", "!">>, <<"{", "n", "a", "m", "e", "}">>}

\* The first bytes of a response body: an ID3 tag, an MPEG frame sync, or
\* anything else (an error payload).
Bodies == {"ID3", "sync", "junk"}

\* The names matching /^[a-zA-Z\s]+$/.
_isEnglishVoice(voiceName) == voiceName \in {"Anna"}

numberWords ==
       0 :> <<"z", "e", "r", "o">>
    @@ 1 :> <<"o", "n", "e">>
    @@ 2 :> <<"t", "w", "o">>
    @@ 3 :> <<"t", "h", "r", "e", "e">>
    @@ 4 :> <<"f", "o", "u", "r">>
    @@ 5 :> <<"f", "i", "v", "e">>
    @@ 6 :> <<"s", "i", "x">>
    @@ 7 :> <<"s", "e", "v", "e", "n">>
    @@ 8 :> <<"e", "i", "g", "h", "t">>
    @@ 9 :> <<"n", "i", "n", "e">>
    @@ 10 :> <<"t", "e", "n">>
    @@ 11 :> <<"e", "l", "e", "v", "e", "n">>
    @@ 12 :> <<"t", "w", "e", "l", "v", "e">>
    @@ 13 :> <<"t", "h", "i", "r", "t", "e", "e", "n">>
    @@ 14 :> <<"f", "o", "u", "r", "t", "e", "e", "n">>
    @@ 15 :> <<"f", "i", "f", "t", "e", "e", "n">>
    @@ 16 :> <<"s", "i", "x", "t", "e", "e", "n">>
    @@ 17 :> <<"s", "e", "v", "e", "n", "t", "e", "e", "n">>
    @@ 18 :> <<"e", "i", "g", "h", "t", "e", "e", "n">>
    @@ 19 :> <<"n", "i", "n", "e", "t", "e", "e", "n">>
    @@ 20 :> <<"t", "w", "e", "n", "t", "y">>
    @@ 30 :> <<"t", "h", "i", "r", "t", "y">>
    @@ 40 :> <<"f", "o", "r", "t", "y">>
    @@ 50 :> <<"f", "i", "f", "t", "y">>
    @@ 60 :> <<"s", "i", "x", "t", "y">>
    @@ 70 :> <<"s", "e", "v", "e", "n", "t", "y">>
    @@ 80 :> <<"e", "i", "g", "h", "t", "y">>
    @@ 90 :> <<"n", "i", "n", "e", "t", "y">>

ordinalWords ==
       1 :> <<"f", "i", "r", "s", "t">>
    @@ 2 :> <<"s", "e", "c", "o", "n", "d">>
    @@ 3 :> <<"t", "h", "i", "r", "d">>
    @@ 4 :> <<"f", "o", "u", "r", "t", "h">>
    @@ 5 :> <<"f", "i", "f", "t", "h">>
    @@ 6 :> <<"s", "i", "x", "t", "h">>
    @@ 7 :> <<"s", "e", "v", "e", "n", "t", "h">>
    @@ 8 :> <<"e", "i", "g", "h", "t", "h">>
    @@ 9 :> <<"n", "i", "n", "t", "h">>
    @@ 10 :> <<"t", "e", "n", "t", "h">>
    @@ 11 :> <<"e", "l", "e", "v", "e", "n", "t", "h">>
    @@ 12 :> <<"t", "w", "e", "l", "f", "t", "h">>
    @@ 13 :> <<"t", "h", "i", "r", "t", "e", "e", "n", "t", "h">>
    @@ 14 :> <<"f", "o", "u", "r", "t", "e", "e", "n", "t", "h">>
    @@ 15 :> <<"f", "i", "f", "t", "e", "e", "n", "t", "h">>
    @@ 16 :> <<"s", "i", "x", "t", "e", "e", "n", "t", "h">>
    @@ 17 :> <<"s", "e", "v", "e", "n", "t", "e", "e", "n", "t", "h">>
    @@ 18 :> <<"e", "i", "g", "h", "t", "e", "e", "n", "t", "h">>
    @@ 19 :> <<"n", "i", "n", "e", "t", "e", "e", "n", "t", "h">>
    @@ 20 :> <<"t", "w", "e", "n", "t", "i", "e", "t", "h">>
    @@ 30 :> <<"t", "h", "i", "r", "t", "i", "e", "t", "h">>
    @@ 40 :> <<"f", "o", "r", "t", "i", "e", "t", "h">>
    @@ 50 :> <<"f", "i", "f", "t", "i", "e", "t", "h">>
    @@ 60 :> <<"s", "i", "x", "t", "i", "e", "t", "h">>
    @@ 70 :> <<"s", "e", "v", "e", "n", "t", "i", "e", "t", "h">>
    @@ 80 :> <<"e", "i", "g", "h", "t", "i", "e", "t", "h">>
    @@ 90 :> <<"n", "i", "n", "e", "t", "i", "e", "t", "h">>
    @@ 100 :> <<"h", "u", "n", "d", "r", "e", "d", "t", "h">>

\* `${numberWords[n]}`: a missing key prints as "undefined".
numberWord(n) == IF n \in DOMAIN numberWords THEN numberWords[n] ELSE <<"u", "n", "d", "e", "f", "i", "n", "e", "d">>

sp == <<" ">>

\* 2^53, from where on a Number holds even integers only
TwoTo53 == <<"9", "0", "0", "7", "1", "9", "9", "2", "5", "4", "7", "4", "0", "9", "9", "2">>

\* a < b, for numerals of the same length
Less(a, b) ==
    \E i \in 1..Len(a) :
        /\ digitValue[a[i]] < digitValue[b[i]]
        /\ \A k \in 1..(i - 1) : a[k] = b[k]

RECURSIVE Inc(_)
\* The numeral of n + 1
Inc(ds) ==
    IF ds = <<>> THEN <<"1">>
    ELSE IF Last(ds) = "9" THEN Inc(Front(ds)) \o <<"0">>
    ELSE Front(ds) \o <<digitChar(digitValue[Last(ds)] + 1)>>

RECURSIVE stripZeros(_)
stripZeros(ds) ==
    IF Len(ds) > 1 /\ ds[1] = "0" THEN stripZeros(Tail(ds)) ELSE ds

\* parseInt of a run of digits, as the numeral that toString() prints: exact
\* up to 2^53; between 2^53 and 2^54 the nearest even integer, a tie going
\* to the multiple of 4 (the even mantissa). The numerals of the model are
\* not longer than the one of 2^53, and so stay below 2^54.
parseInt(match) ==
    LET z == stripZeros(match)
        n == Len(z)
    IN IF n < Len(TwoTo53) \/ ~Less(TwoTo53, z) THEN z
       ELSE IF digitValue[z[n]] % 2 = 0 THEN z
       ELSE IF (10 * digitValue[z[n - 1]] + digitValue[z[n]]) % 4 = 1
            THEN Front(z) \o <<digitChar(digitValue[z[n]] - 1)>>
       ELSE Inc(z)

RECURSIVE IntOf(_)
\* The value of a numeral of at most nine digits
IntOf(ds) == IF ds = <<>> THEN 0 ELSE IntOf(Front(ds)) * 10 + digitValue[Last(ds)]

under100(n) ==
    IF n <= 20 THEN numberWords[n]
    ELSE LET tens == (n \div 10) * 10
             ones == n % 10
         IN IF ones = 0 THEN numberWords[tens]
            ELSE numberWords[tens] \o sp \o numberWords[ones]

\* convertNumber for 0 < num < 10000 (169-188)
convertNumber_small(num) ==
    IF num < 100 THEN under100(num)
    ELSE IF num < 1000
    THEN LET hundreds == num \div 100
             remainder == num % 100
         IN IF remainder = 0 THEN numberWords[hundreds] \o sp \o <<"h", "u", "n", "d", "r", "e", "d">>
            ELSE numberWords[hundreds] \o sp \o <<"h", "u", "n", "d", "r", "e", "d">> \o sp \o under100(remainder)
    ELSE LET thousands == num \div 1000
             remainder == num % 1000
             hundreds == remainder \div 100
             tens == remainder % 100
         IN IF remainder = 0 THEN numberWords[thousands] \o sp \o <<"t", "h", "o", "u", "s", "a", "n", "d">>
            ELSE IF hundreds = 0
            THEN numberWords[thousands] \o sp \o <<"t", "h", "o", "u", "s", "a", "n", "d">> \o sp \o under100(tens)
            ELSE IF tens = 0
            THEN numberWords[thousands] \o sp \o <<"t", "h", "o", "u", "s", "a", "n", "d">> \o sp \o numberWords[hundreds]
                 \o sp \o <<"h", "u", "n", "d", "r", "e", "d">>
            ELSE numberWords[thousands] \o sp \o <<"t", "h", "o", "u", "s", "a", "n", "d">> \o sp \o numberWords[hundreds]
                 \o sp \o <<"h", "u", "n", "d", "r", "e", "d">> \o sp \o under100(tens)

\* convertNumber of a run of digits: num.toString() from 10000 on
convertNumber(match) ==
    LET num == parseInt(match)
    IN IF num = <<"0">> THEN <<"z", "e", "r", "o">>
       ELSE IF Len(num) > 4 THEN num
       ELSE convertNumber_small(IntOf(num))

RECURSIVE generateOrdinal(_)
generateOrdinal(num) ==
    IF num \in DOMAIN ordinalWords THEN ordinalWords[num]
    ELSE IF num < 100
    THEN LET tens == (num \div 10) * 10
             ones == num % 10
         IN IF ones = 0 THEN numberWord(tens) \o <<"t", "h">>
            ELSE numberWord(tens) \o sp \o ordinalWords[ones]
    ELSE IF num < 1000
    THEN LET hundreds == num \div 100
             remainder == num % 100
             tens == (remainder \div 10) * 10
             ones == remainder % 10
         IN IF remainder = 0 THEN numberWord(hundreds) \o sp \o <<"h", "u", "n", "d", "r", "e", "d", "t", "h">>
            ELSE IF remainder \in DOMAIN ordinalWords
            THEN numberWord(hundreds) \o sp \o <<"h", "u", "n", "d", "r", "e", "d">> \o sp \o ordinalWords[remainder]
            ELSE IF ones = 0
            THEN numberWord(hundreds) \o sp \o <<"h", "u", "n", "d", "r", "e", "d">> \o sp \o numberWord(tens) \o <<"t", "h">>
            ELSE numberWord(hundreds) \o sp \o <<"h", "u", "n", "d", "r", "e", "d">> \o sp \o numberWord(tens)
                 \o sp \o ordinalWords[ones]
    ELSE LET thousands == num \div 1000
             remainder == num % 1000
         IN IF remainder = 0 THEN numberWord(thousands) \o sp \o <<"t", "h", "o", "u", "s", "a", "n", "d", "t", "h">>
            ELSE numberWord(thousands) \o sp \o <<"t", "h", "o", "u", "s", "a", "n", "d">> \o sp \o generateOrdinal(remainder)

IsW(text, i) == i >= 1 /\ i <= Len(text) /\ text[i] \in WordChars

\* \b before position i
Boundary(text, i) == IsW(text, i - 1) # IsW(text, i)

\* The last position of the run of digits that starts at i
RunEnd(text, i) ==
    CHOOSE j \in i..Len(text) :
        /\ \A k \in i..j : text[k] \in Digits
        /\ j = Len(text) \/ text[j + 1] \notin Digits

\* (nd|rd|th|st)
Suffixes == {<<"n", "d">>, <<"r", "d">>, <<"t", "h">>, <<"s", "t">>}

\* /\b(\d+)(nd|rd|th|st)\b/ matches at i
OrdinalAt(text, i) ==
    /\ text[i] \in Digits
    /\ Boundary(text, i)
    /\ LET j == RunEnd(text, i)
       IN /\ j + 2 <= Len(text)
          /\ SubSeq(text, j + 1, j + 2) \in Suffixes
          /\ Boundary(text, j + 3)

\* /\b\d+\b/ matches at i
NumberAt(text, i) ==
    /\ text[i] \in Digits
    /\ Boundary(text, i)
    /\ Boundary(text, RunEnd(text, i) + 1)

RECURSIVE replaceOrdinals(_, _)
\* text.replace(/\b(\d+)(nd|rd|th|st)\b/gi, ...) from position i on
replaceOrdinals(text, i) ==
    IF i > Len(text) THEN <<>>
    ELSE IF OrdinalAt(text, i)
    THEN LET j == RunEnd(text, i)
         IN generateOrdinal(IntOf(parseInt(SubSeq(text, i, j))))
            \o replaceOrdinals(text, j + 3)
    ELSE <<text[i]>> \o replaceOrdinals(text, i + 1)

RECURSIVE replaceNumbers(_, _)
\* text.replace(/\b\d+\b/g, ...) from position i on
replaceNumbers(text, i) ==
    IF i > Len(text) THEN <<>>
    ELSE IF NumberAt(text, i)
    THEN LET j == RunEnd(text, i)
         IN convertNumber(SubSeq(text, i, j)) \o replaceNumbers(text, j + 1)
    ELSE <<text[i]>> \o replaceNumbers(text, i + 1)

\* The replacements that can match, in their order
processNumberFormats(inputText) == replaceNumbers(replaceOrdinals(inputText, 1), 1)

RECURSIVE replacePlus(_)
\* text.replace(/\+/g, ' plus ')
replacePlus(text) ==
    IF text = <<>> THEN <<>>
    ELSE (IF text[1] = "+" THEN sp \o <<"p", "l", "u", "s">> \o sp ELSE <<text[1]>>) \o replacePlus(Tail(text))

RECURSIVE replaceParentheses(_, _)
\* text.replace(/\(([^)]+)\)/g, ...) from position i on: the content of each
\* pair of parentheses goes through processNumberFormats.
replaceParentheses(text, i) ==
    IF i > Len(text) THEN <<>>
    ELSE IF /\ text[i] = "("
            /\ \E j \in (i + 2)..Len(text) :
                  text[j] = ")" /\ \A k \in (i + 1)..(j - 1) : text[k] # ")"
    THEN LET j == CHOOSE j \in (i + 2)..Len(text) :
                      text[j] = ")" /\ \A k \in (i + 1)..(j - 1) : text[k] # ")"
         IN <<"(">> \o processNumberFormats(SubSeq(text, i + 1, j - 1)) \o <<")">>
            \o replaceParentheses(text, j + 1)
    ELSE <<text[i]>> \o replaceParentheses(text, i + 1)

\* TextUtils.convertNumbersToEnglish: the same code without the voice test
convertNumbersToEnglish(text) ==
    IF text = <<>> THEN text
    ELSE processNumberFormats(replaceParentheses(replacePlus(text), 1))

_convertNumbersToEnglish(text, voiceName) ==
    IF text = <<>> THEN text
    ELSE IF voiceName = "" \/ ~_isEnglishVoice(voiceName) THEN text
    ELSE processNumberFormats(replaceParentheses(replacePlus(text), 1))

maxLength == 100

\* text.trim()
trim(text) ==
    LET keep == {i \in 1..Len(text) : text[i] \notin Whitespace}
    IN IF keep = {} THEN <<>>
       ELSE SubSeq(text, CHOOSE i \in keep : \A k \in keep : i <= k,
                         CHOOSE i \in keep : \A k \in keep : i >= k)

RECURSIVE collapseFrom(_, _, _, _)
\* What the characters a..b of the text become when every run of characters
\* of the class is replaced by one "_": the last character of a run becomes
\* the "_", the others go. The range is halved to keep the nesting flat.
collapseFrom(text, class, a, b) ==
    IF a > b THEN <<>>
    ELSE IF a = b
    THEN IF text[a] \notin class THEN <<text[a]>>
         ELSE IF a < Len(text) /\ text[a + 1] \in class THEN <<>>
         ELSE <<"_">>
    ELSE LET m == (a + b) \div 2
         IN collapseFrom(text, class, a, m) \o collapseFrom(text, class, m + 1, b)

collapse(text, class) == collapseFrom(text, class, 1, Len(text))

\* .replace(/^_|_$/g, '')
stripUnderscores(text) ==
    LET a == IF text # <<>> /\ text[1] = "_" THEN Tail(text) ELSE text
    IN IF a # <<>> /\ Last(a) = "_" THEN Front(a) ELSE a

\* Mutant of _textToFileName_cut: the name is not cut.
_textToFileName_whole(processedText) ==
    IF processedText = <<>> THEN <<"t", "t", "s", "_", "a", "u", "d", "i", "o">> ELSE processedText

\* The return statement of _textToFileName (92-93)
_textToFileName_cut(processedText) ==
    IF Len(processedText) > maxLength THEN SubSeq(processedText, 1, maxLength)
    ELSE IF processedText = <<>> THEN <<"t", "t", "s", "_", "a", "u", "d", "i", "o">> ELSE processedText

_textToFileName(text) ==
    LET removed == SelectSeq(trim(text), LAMBDA c : c \notin Punctuation)
        mapped == [i \in 1..Len(removed) |->
                      IF removed[i] \in Reserved THEN "_" ELSE removed[i]]
        processedText == stripUnderscores(collapse(collapse(mapped, Whitespace), {"_"}))
    IN _textToFileName_cut(processedText)

\* path.join(cache root, voiceName, fileName + ".mp3")
_getCacheFilePath(text, voiceName) == <<voiceName, _textToFileName(text)>>

\* Object.keys(s.voices), in insertion order
voiceKeys(s) == [i \in 1..Len(s.voices) |-> s.voices[i].name]

\* s.voices[name]
voiceAt(s, name) ==
    IF \E i \in 1..Len(s.voices) : s.voices[i].name = name
    THEN s.voices[CHOOSE i \in 1..Len(s.voices) : s.voices[i].name = name].id
    ELSE ""

_getVoiceId(s, voiceName) ==
    IF voiceName = "" \/ s.voices = <<>> THEN ""
    ELSE IF voiceAt(s, voiceName) # "" THEN voiceAt(s, voiceName)
    ELSE voiceAt(s, s.defaultVoice)

\* Mutant of isAvailable: the enabled flag is not looked at.
isAvailable_keyOnly(s) == s.apiKey

isAvailable(s) == s.enabled /\ s.apiKey

\* fs.existsSync(filePath)
existsSync(c, filePath) == \E f \in c : f.path = filePath

\* hasCachedAudio(text, voiceName): an omitted voice is the default voice.
hasCachedAudio(s, c, text, arg) ==
    LET voiceName == IF arg = undefined THEN s.defaultVoice ELSE arg
        processedText == _convertNumbersToEnglish(text, voiceName)
    IN existsSync(c, _getCacheFilePath(processedText, voiceName))

\* Mutant of writeFileSync: nothing is written.
writeFileSync_skip(c, filePath, body, voiceId) == c

\* fs.writeFileSync(filePath, body): the file is created or replaced.
writeFileSync(c, filePath, body, voiceId) ==
    {f \in c : f.path # filePath} \cup {[path |-> filePath, body |-> body, id |-> voiceId]}

\* A call of speak or generateAudio: its arguments, what _validateAndPrepare
\* returned, the state and value of its promise, and what it has done so far
\* (requests sent with their provider id, files written, playback job).
Call(op, text, arg) ==
    [op |-> op, text |-> text, arg |-> arg,
     voiceName |-> "", processedText |-> <<>>, filePath |-> <<>>,
     status |-> "pending", error |-> "", value |-> <<>>,
     reqs |-> 0, id |-> "", wrote |-> 0, job |-> 0]

Rejected(call, err) == [call EXCEPT !.status = "rejected", !.error = err]

_validateAndPrepare(s, call) ==
    LET arg == IF call.arg = undefined THEN s.defaultVoice ELSE call.arg
    IN IF ~isAvailable(s) THEN Rejected(call, "not available")
       ELSE IF s.voices = <<>> THEN Rejected(call, "no voices")
       ELSE LET voiceName == IF arg = "" /\ s.defaultVoice = ""
                             THEN voiceKeys(s)[1] ELSE arg
                processedText == _convertNumbersToEnglish(call.text, voiceName)
            IN [call EXCEPT !.voiceName = voiceName,
                            !.processedText = processedText,
                            !.filePath = _getCacheFilePath(processedText, voiceName)]

\* _fetchAudioFromAPI up to req.end(): the request is on its way.
_fetchAudioFromAPI(s, call) ==
    LET voiceId == _getVoiceId(s, call.voiceName)
    IN IF call.processedText = <<>> THEN Rejected(call, "invalid text")
       ELSE IF ~s.apiKey THEN Rejected(call, "no key")
       ELSE IF voiceId = "" THEN Rejected(call, "invalid voice")
       ELSE [call EXCEPT !.status = "fetching", !.reqs = @ + 1, !.id = voiceId]

\* Mutant of speak: the cache is not looked at.
speak_alwaysFetch(s, c, text, arg) ==
    LET call == _validateAndPrepare(s, Call("speak", text, arg))
    IN IF call.status = "rejected" THEN call
       ELSE _fetchAudioFromAPI(s, call)

\* speak up to its first pending await: the promise is rejected, or follows
\* the promise of playAudio ("playing"), or waits for the response.
speak(s, c, text, arg) ==
    LET call == _validateAndPrepare(s, Call("speak", text, arg))
    IN IF call.status = "rejected" THEN call
       ELSE IF existsSync(c, call.filePath) THEN [call EXCEPT !.status = "playing"]
       ELSE _fetchAudioFromAPI(s, call)

\* Mutant of generateAudio: the cache is not looked at.
generateAudio_alwaysFetch(s, c, text, arg) ==
    LET call == _validateAndPrepare(s, Call("generate", text, arg))
    IN IF call.status = "rejected" THEN call
       ELSE _fetchAudioFromAPI(s, call)

generateAudio(s, c, text, arg) ==
    LET call == _validateAndPrepare(s, Call("generate", text, arg))
    IN IF call.status = "rejected" THEN call
       ELSE IF existsSync(c, call.filePath)
            THEN [call EXCEPT !.status = "resolved", !.value = call.filePath]
       ELSE _fetchAudioFromAPI(s, call)

\* The 'end' handler of a 200 response has written the file (saved) or
\* writeFileSync has thrown; then the rest of speak / generateAudio.
responseEnd(call, saved) ==
    IF ~saved THEN Rejected(call, "save")
    ELSE [call EXCEPT !.status = "resolved",
                      !.wrote = @ + 1,
                      !.value = IF call.op = "generate" THEN call.filePath ELSE <<>>]

\* Mutant of requestFailed: the request is sent again.
requestFailed_retry(call) == [call EXCEPT !.reqs = @ + 1]

\* reject(new Error(...)) of a request that got no 200 response; nothing is
\* written and nothing is sent again.
requestFailed(call) == Rejected(call, "fetch")

----------------------------------------------------------------------------
\* The synthesis client: actions

Speak ==
    /\ Len(calls) < MaxCalls
    /\ \E text \in Texts, arg \in VoiceArgs :
        LET call == speak(settings, cache, text, arg)
        IN IF call.status = "playing"
           THEN /\ NextJob <= MaxJobs
                /\ LET j == NextJob
                       s == [St EXCEPT !.kind[j] = "play", !.exists[j] = TRUE]
                   IN Become(play(s, j))
                /\ calls' = Append(calls, [call EXCEPT !.job = NextJob])
           ELSE /\ calls' = Append(calls, call)
                /\ UNCHANGED playerVars
    /\ UNCHANGED <<settings, dirs, cache>>
    /\ UNCHANGED speechVars

GenerateAudio ==
    /\ Len(calls) < MaxCalls
    /\ \E text \in Texts, arg \in VoiceArgs :
        calls' = Append(calls, generateAudio(settings, cache, text, arg))
    /\ UNCHANGED <<settings, dirs, cache>>
    /\ UNCHANGED speechVars
    /\ UNCHANGED playerVars

\* res.on('end') of a response with status 200
ResponseEnd ==
    /\ \E i \in 1..Len(calls), body \in Bodies :
        LET call == calls[i]
            saved == call.voiceName \in dirs
        IN /\ call.status = "fetching"
           /\ cache' = IF saved
                       THEN writeFileSync(cache, _getCacheFilePath(call.processedText, call.voiceName),
                                          body, call.id)
                       ELSE cache
           /\ calls' = [calls EXCEPT ![i] = responseEnd(call, saved)]
    /\ UNCHANGED <<settings, dirs>>
    /\ UNCHANGED speechVars
    /\ UNCHANGED playerVars

\* A response with another status than 200
ResponseStatus ==
    /\ \E i \in 1..Len(calls) :
        /\ calls[i].status = "fetching"
        /\ calls' = [calls EXCEPT ![i] = requestFailed(@)]
    /\ UNCHANGED <<settings, dirs, cache>>
    /\ UNCHANGED speechVars
    /\ UNCHANGED playerVars

\* req.on('error')
RequestError ==
    /\ \E i \in 1..Len(calls) :
        /\ calls[i].status = "fetching"
        /\ calls' = [calls EXCEPT ![i] = requestFailed(@)]
    /\ UNCHANGED <<settings, dirs, cache>>
    /\ UNCHANGED speechVars
    /\ UNCHANGED playerVars

\* The callback of req.setTimeout(10000): req.abort(), reject
RequestTimeout ==
    /\ \E i \in 1..Len(calls) :
        /\ calls[i].status = "fetching"
        /\ calls' = [calls EXCEPT ![i] = requestFailed(@)]
    /\ UNCHANGED <<settings, dirs, cache>>
    /\ UNCHANGED speechVars
    /\ UNCHANGED playerVars

\* The voice maps a user can configure: names in insertion order, each with
\* its provider id.
VoiceMaps ==
    {m \in UNION {[1..n -> [name : Names, id : Ids]] : n \in 0..Cardinality(Names)} :
        \A i, k \in DOMAIN m : m[i].name = m[k].name => i = k}

\* The state after `new OnlineTTS(settings)` on an empty cache: the user
\* fields are taken over as they are, and _ensureCacheDirs has made the
\* directory of every configured voice.
InitTTS ==
    /\ AudioPlayerInit
    /\ \E u \in [enabled : BOOLEAN, apiKey : BOOLEAN, voices : VoiceMaps,
                  defaultVoice : Names \cup {""}] :
          settings = [defaultConfig EXCEPT !.enabled = u.enabled, !.apiKey = u.apiKey,
                                           !.voices = u.voices,
                                           !.defaultVoice = u.defaultVoice]
    /\ dirs = {settings.voices[i].name : i \in 1..Len(settings.voices)}
    /\ cache = {}
    /\ calls = <<>>
    /\ speech = NoSpeech
    /\ last = NoCall

NextTTS ==
    \/ Speak
    \/ GenerateAudio
    \/ ResponseEnd
    \/ ResponseStatus
    \/ RequestError
    \/ RequestTimeout

SpecTTS == InitTTS /\ [][NextTTS]_vars

----------------------------------------------------------------------------
\* Terms of the properties of the synthesis client

\* The step is a call of speak or generateAudio.
CallsIn == Len(calls') = Len(calls) + 1

\* The call made in the step, as it stands at the end of the step.
TheCall == calls'[Len(calls')]

\* The step settles the pending request of call i.
SettlesIn(i) == calls[i].status = "fetching" /\ calls'[i].status # "fetching"

\* Call i is an earlier call with the same arguments that has succeeded.
SameAsDone(i, call) ==
    /\ calls[i].op = call.op
    /\ calls[i].text = call.text
    /\ calls[i].arg = call.arg
    /\ calls[i].status = "resolved"

\* C13: from an empty cache, a successful generateAudio has sent exactly one
\* request and written exactly one file, the one at the path it returns; a
\* second generateAudio call with the same arguments sends no request, writes
\* nothing and returns the same path.
C13_GenerateOnceThenCached ==
    [][/\ \A i \in 1..Len(calls') :
             calls'[i].op = "generate" /\ calls'[i].status = "resolved" =>
                /\ calls'[i].value = calls'[i].filePath
                /\ existsSync(cache', calls'[i].value)
                /\ calls'[i].reqs = calls'[i].wrote
                /\ calls'[i].reqs <= 1
                /\ i = 1 => calls'[i].reqs = 1
       /\ CallsIn => \A i \in 1..Len(calls) :
             SameAsDone(i, TheCall) /\ TheCall.op = "generate" =>
                /\ TheCall.status = "resolved"
                /\ TheCall.reqs = 0 /\ TheCall.wrote = 0
                /\ TheCall.value = calls[i].value
                /\ cache' = cache]_vars

\* C13 witness: the first generateAudio call fetched and wrote the file, the
\* second call with the same arguments resolved with the same path without a
\* request.
C13_Witness ==
    /\ Len(calls) = 2
    /\ calls[1].op = "generate" /\ calls[2].op = "generate"
    /\ calls[1].text = calls[2].text /\ calls[1].arg = calls[2].arg
    /\ calls[1].status = "resolved" /\ calls[1].reqs = 1 /\ calls[1].wrote = 1
    /\ calls[2].status = "resolved" /\ calls[2].reqs = 0
    /\ calls[2].value = calls[1].value

SpeakFetchedIn(i) ==
    /\ calls[i].op = "speak"
    /\ SettlesIn(i)
    /\ calls'[i].status = "resolved"

C16_InvalidAudioNotCached == \A f \in cache : f.body \in {"ID3", "sync"}

\* C17: no request is sent while synthesis is disabled or no API key is set:
\* a call made then is rejected without a request, whatever text and voice.
C17_NoRequestWhenUnavailable ==
    [][/\ CallsIn /\ ~(settings.enabled /\ settings.apiKey) =>
             /\ TheCall.status = "rejected"
             /\ TheCall.reqs = 0
       /\ \A i \in 1..Len(calls) : calls'[i].reqs > calls[i].reqs =>
             settings.enabled /\ settings.apiKey]_vars

\* C17 witness: with a key and a default voice that has an id, but disabled,
\* a call was rejected without a request.
C17_Witness ==
    /\ ~settings.enabled /\ settings.apiKey
    /\ voiceAt(settings, settings.defaultVoice) # ""
    /\ Len(calls) = 1
    /\ calls[1].status = "rejected" /\ calls[1].reqs = 0

\* The provider id of the first of: the requested voice, the default voice,
\* the first configured voice, that has a non-empty one ("" if none has).
FallbackId(s, arg) ==
    IF voiceAt(s, arg) # "" THEN voiceAt(s, arg)
    ELSE IF voiceAt(s, s.defaultVoice) # "" THEN voiceAt(s, s.defaultVoice)
    ELSE IF s.voices # <<>> THEN s.voices[1].id
    ELSE ""

\* C18: the provider id of a request is that of the requested voice, else of
\* the default voice, else of the first configured voice: a call that needs
\* a fetch sends the request with this id whenever it is non-empty and is
\* rejected only when it is empty.
C18_VoiceFallbackOrder ==
    [][CallsIn /\ isAvailable(settings) /\ TheCall.status \in {"fetching", "rejected"} =>
          IF FallbackId(settings, TheCall.arg) # ""
          THEN /\ TheCall.status = "fetching"
               /\ TheCall.id = FallbackId(settings, TheCall.arg)
          ELSE TheCall.status = "rejected"]_vars

\* C19: a text that still contains a template placeholder is rejected
\* without a request and without a cache write.
C19_PlaceholderRejected ==
    \A i \in 1..Len(calls) : {"{", "}"} \subseteq Range(calls[i].text) =>
        /\ calls[i].status = "rejected"
        /\ calls[i].reqs = 0
        /\ calls[i].wrote = 0

\* C20: a request that ends in a timeout, another status than 200 or a
\* connection error rejects the call and leaves the cache as it was, and no
\* request is sent again: a call sends at most one request.
C20_FailedFetchNotRetried ==
    [][/\ \A i \in 1..Len(calls) : SettlesIn(i) /\ calls'[i].error = "fetch" =>
             /\ calls'[i].status = "rejected"
             /\ cache' = cache
             /\ \A k \in 1..Len(calls) : calls'[k].reqs = calls[k].reqs
       /\ \A i \in 1..Len(calls') : calls'[i].reqs <= 1
       /\ \A i \in 1..Len(calls) :
             calls[i].status = "fetching" /\ calls'[i].status = "fetching" =>
                calls'[i] = calls[i]]_vars

\* C20 witness: the request of a call has failed; the call is rejected after
\* one request and the cache is empty.
C20_Witness ==
    /\ Len(calls) = 1
    /\ calls[1].status = "rejected" /\ calls[1].error = "fetch"
    /\ calls[1].reqs = 1 /\ calls[1].wrote = 0
    /\ cache = {}

\* C21: the cache file of a synthesized text is addressed by the original
\* text of the call, while the normalized text is what is sent: after a
\* call has stored its file, a file exists at the path of the original text.
C21_KeyedByOriginalText ==
    \A i \in 1..Len(calls) : calls[i].wrote = 1 =>
        existsSync(cache, _getCacheFilePath(calls[i].text, calls[i].voiceName))

----------------------------------------------------------------------------
\* The synthesis client: configuration

\* The fields taken over from a settings object.
UserKeys == {"apiKey", "voices", "rate", "enabled", "defaultVoice"}

\* Fields of a settings object that are not taken over: four that the
\* client hard-codes, and one that it does not know.
OtherKeys == {"cacheDir", "apiEndpoint", "sampleRate", "volume", "gender"}

\* Rates a caller may hand over, in tenths: 0, 0.3, 1 and 10.
Rates == {0, 3, 10, 100}

\* Voice objects a caller may hand over as a whole.
ConfigMaps ==
    {<<>>,
     <<[name |-> "Anna", id |-> "id1"]>>,
     <<[name |-> "Anna", id |-> "id1"], [name |-> "v2", id |-> ""]>>}

Restrict(f, D) == [k \in D |-> f[k]]

\* {...a, ...b}
spread(a, b) == [k \in DOMAIN a \cup DOMAIN b |-> IF k \in DOMAIN b THEN b[k] ELSE a[k]]

\* The settings objects handed to the constructor and to updateSettings: a
\* key that is left out is undefined.
SettingsObjects ==
    LET full == [apiKey : {TRUE}, voices : ConfigMaps, rate : Rates, enabled : {TRUE},
                 defaultVoice : Names \cup {""}, cacheDir : {"elsewhere"},
                 apiEndpoint : {"http://localhost"}, sampleRate : {8000},
                 volume : {50}, gender : {"male"}]
        keys == {{}, OtherKeys, UserKeys \cup OtherKeys, {"voices", "defaultVoice"},
                 {"rate", "volume"}} \cup {{k} : k \in UserKeys}
    IN {Restrict(r, D) : r \in full, D \in keys}

\* Mutant of userSettings: every field of the object is taken over.
userSettings_all(obj) == obj

\* The forEach over the five keys: the fields of the object that are taken over.
userSettings(obj) == Restrict(obj, UserKeys \cap DOMAIN obj)

\* this.settings after the constructor
constructor(obj) == spread(defaultConfig, userSettings(obj))

\* _ensureCacheDirs: the directory of every configured voice exists.
_ensureCacheDirs(d, s) == d \cup {s.voices[i].name : i \in 1..Len(s.voices)}

\* this.settings after updateSettings(obj)
updateSettings(s, obj) == spread(s, userSettings(obj))

\* this.settings after setVoice(name, id)
setVoice(s, name, id) ==
    LET has == \E i \in 1..Len(s.voices) : s.voices[i].name = name
        voices == IF has
                  THEN [i \in 1..Len(s.voices) |->
                           IF s.voices[i].name = name THEN [name |-> name, id |-> id]
                           ELSE s.voices[i]]
                  ELSE Append(s.voices, [name |-> name, id |-> id])
    IN [s EXCEPT !.voices = voices,
                 !.defaultVoice = IF Len(voices) = 1 THEN name ELSE @]

\* The guard of deleteVoice: the value stored under the name is truthy and
\* the name is not the default voice.
deleteVoice_ok(s, name) == voiceAt(s, name) # "" /\ s.defaultVoice # name

\* this.settings after deleteVoice(name)
deleteVoice(s, name) ==
    IF ~deleteVoice_ok(s, name) THEN s
    ELSE [s EXCEPT !.voices = SelectSeq(s.voices, LAMBDA v : v.name # name)]

\* The files left after deleteVoice(name) has unlinked those of the voice.
unlinkVoice(s, c, name) ==
    IF ~deleteVoice_ok(s, name) THEN c ELSE {f \in c : f.path[1] # name}

setDefaultVoice_ok(s, name) == voiceAt(s, name) # ""

setDefaultVoice(s, name) ==
    IF ~setDefaultVoice_ok(s, name) THEN s ELSE [s EXCEPT !.defaultVoice = name]

Max(a, b) == IF a >= b THEN a ELSE b

Min(a, b) == IF a <= b THEN a ELSE b

\* Math.max(0.5, Math.min(5, parseFloat(rate) || 1)), in tenths
setRate_value(rate) == Max(5, Min(50, IF rate = 0 THEN 10 ELSE rate))

setRate(s, rate) == [s EXCEPT !.rate = setRate_value(rate)]

setApiKey(s, apiKey) == [s EXCEPT !.apiKey = apiKey]

setEnabled(s, enabled) == [s EXCEPT !.enabled = enabled]

\* What earlier runs have left under the cache root.
FilesBefore == {[path |-> <<"v2", <<"h", "i", "t">>>>, body |-> "ID3", id |-> "id1"]}

DirsBefore == {"v2"}

UpdateSettings ==
    /\ \E obj \in SettingsObjects :
        /\ settings' = updateSettings(settings, obj)
        /\ last' = [op |-> "updateSettings", settings |-> obj]
    /\ dirs' = IF settings'.voices # settings.voices
               THEN _ensureCacheDirs(dirs, settings') ELSE dirs
    /\ UNCHANGED <<cache, calls, speech>>
    /\ UNCHANGED playerVars

SetVoice ==
    /\ \E name \in Names, id \in Ids :
        /\ settings' = setVoice(settings, name, id)
        /\ dirs' = dirs \cup {name}
        /\ last' = [op |-> "setVoice", name |-> name, id |-> id]
    /\ UNCHANGED <<cache, calls, speech>>
    /\ UNCHANGED playerVars

DeleteVoice ==
    /\ \E name \in Names :
        /\ settings' = deleteVoice(settings, name)
        /\ cache' = unlinkVoice(settings, cache, name)
        /\ last' = [op |-> "deleteVoice", name |-> name,
                    result |-> deleteVoice_ok(settings, name)]
    /\ UNCHANGED <<dirs, calls, speech>>
    /\ UNCHANGED playerVars

SetDefaultVoice ==
    /\ \E name \in Names :
        /\ settings' = setDefaultVoice(settings, name)
        /\ last' = [op |-> "setDefaultVoice", name |-> name,
                    result |-> setDefaultVoice_ok(settings, name)]
    /\ UNCHANGED <<dirs, cache, calls, speech>>
    /\ UNCHANGED playerVars

SetRate ==
    /\ \E rate \in Rates :
        /\ settings' = setRate(settings, rate)
        /\ last' = [op |-> "setRate", rate |-> rate, result |-> settings'.rate]
    /\ UNCHANGED <<dirs, cache, calls, speech>>
    /\ UNCHANGED playerVars

SetApiKey ==
    /\ \E apiKey \in BOOLEAN :
        /\ settings' = setApiKey(settings, apiKey)
        /\ last' = [op |-> "setApiKey", apiKey |-> apiKey]
    /\ UNCHANGED <<dirs, cache, calls, speech>>
    /\ UNCHANGED playerVars

SetEnabled ==
    /\ \E enabled \in BOOLEAN :
        /\ settings' = setEnabled(settings, enabled)
        /\ last' = [op |-> "setEnabled", enabled |-> enabled]
    /\ UNCHANGED <<dirs, cache, calls, speech>>
    /\ UNCHANGED playerVars

\* The state after `new OnlineTTS(settings)` on the cache of earlier runs.
InitConfig ==
    /\ AudioPlayerInit
    /\ \E obj \in SettingsObjects :
        /\ settings = constructor(obj)
        /\ last = [op |-> "constructor", settings |-> obj]
    /\ dirs = _ensureCacheDirs(DirsBefore, settings)
    /\ cache = FilesBefore
    /\ calls = <<>>
    /\ speech = NoSpeech

NextConfig ==
    \/ UpdateSettings
    \/ SetVoice
    \/ DeleteVoice
    \/ SetDefaultVoice
    \/ SetRate
    \/ SetApiKey
    \/ SetEnabled

SpecConfig == InitConfig /\ [][NextConfig]_vars

\* Every voice name of the map
voiceNames(s) == {s.voices[i].name : i \in 1..Len(s.voices)}

\* C22: deleteVoice(name) returns false and leaves the voice map as it is
\* when name is the default voice; for every other name that is a key of the
\* voice map it returns true and the key is gone from the map.
C22_DeleteVoice ==
    [][last'.op = "deleteVoice" /\ last' # last =>
          /\ last'.name = settings.defaultVoice =>
                ~last'.result /\ settings'.voices = settings.voices
          /\ last'.name \in voiceNames(settings) /\ last'.name # settings.defaultVoice =>
                last'.result /\ last'.name \notin voiceNames(settings')]_vars

\* C23: the configured rate lies between 0.5 and 5 (5 and 50 tenths) after
\* construction and after every call, and setRate stores its argument
\* clamped to that range.
C23_RateInRange ==
    /\ settings.rate >= 5 /\ settings.rate <= 50
    /\ last.op = "setRate" => settings.rate = Max(5, Min(50, last.rate))

\* The settings `new` are the settings `old` with exactly the recognised
\* fields of the object taken over.
TakenOver(old, new, obj) ==
    /\ DOMAIN new = DOMAIN old
    /\ \A k \in DOMAIN old :
          new[k] = IF k \in UserKeys \cap DOMAIN obj THEN obj[k] ELSE old[k]

\* C27: the constructor and updateSettings take over the recognised fields
\* of the settings object and nothing else: every other field of the object
\* is ignored, and cacheDir, apiEndpoint, sampleRate and volume stay as they
\* were (as in defaultConfig for the constructor).
C27_OnlyUserFields ==
    /\ last.op = "constructor" => TakenOver(defaultConfig, settings, last.settings)
    /\ [][last'.op = "updateSettings" => TakenOver(settings, settings', last'.settings)]_vars

\* C27 witness: updateSettings was given an object with a rate and with a
\* cacheDir; the rate is taken over, the cacheDir is not.
C27_Witness ==
    /\ last.op = "updateSettings"
    /\ {"rate", "cacheDir", "gender"} \subseteq DOMAIN last.settings
    /\ settings.rate = last.settings.rate
    /\ settings.rate # defaultConfig.rate
    /\ settings.cacheDir = "tts_cache"
    /\ settings.cacheDir # last.settings.cacheDir

----------------------------------------------------------------------------
\* The text functions on their own

\* The numerals 0..MaxNumber are among the inputs.
MaxNumber == 10010

RECURSIVE toString(_)
\* The numeral of n
toString(n) == IF n < 10 THEN <<digitChar(n)>> ELSE toString(n \div 10) \o <<digitChar(n % 10)>>

\* Numerals with leading zeros, and numerals around 2^53
LongNumerals ==
    {<<"0", "0", "7">>,
     <<"0", "0", "0", "1", "2", "3", "4", "5">>,
     <<"6", "5", "5", "3", "6">>,
     <<"1", "2", "3", "4", "5", "6", "7", "8", "9", "0", "1", "2", "3", "4", "5", "6">>,
     <<"9", "0", "0", "7", "1", "9", "9", "2", "5", "4", "7", "4", "0", "9", "9", "1">>,
     <<"9", "0", "0", "7", "1", "9", "9", "2", "5", "4", "7", "4", "0", "9", "9", "2">>,
     <<"9", "0", "0", "7", "1", "9", "9", "2", "5", "4", "7", "4", "0", "9", "9", "3">>,
     <<"9", "0", "0", "7", "1", "9", "9", "2", "5", "4", "7", "4", "0", "9", "9", "5">>,
     <<"9", "0", "0", "7", "1", "9", "9", "2", "5", "4", "7", "4", "0", "9", "9", "6">>,
     <<"9", "9", "9", "9", "9", "9", "9", "9", "9", "9", "9", "9", "9", "9", "9", "9">>}

Numerals == {toString(n) : n \in 0..MaxNumber} \cup LongNumerals

\* "hit <numeral>!"
Embed(numeral) == <<"h", "i", "t", " ">> \o numeral \o <<"!">>

\* Texts with ordinals, "+", parentheses, and numerals that do not stand alone
OtherTexts ==
    {<<"3", "r", "d">>, <<"2", "1", "s", "t", " ", "h", "i", "t">>, <<"1", "1", "2", "t", "h">>, <<"3", "+", "4">>, <<"h", "i", "t", " ", "(", "3", ")", " ", "a", "n", "d", " ", "1", "2", "0", "0">>, <<"(", "(", "3", ")", " ", "4">>, <<"a", "3", " ", "3", "a">>, <<"3", "_", " ", "_", "3">>, <<"(", ")", " ", "5">>, <<>>}

\* The suffix that English gives the ordinal of n
suffixOf(n) ==
    IF n % 100 \in {11, 12, 13} THEN <<"t", "h">>
    ELSE CASE n % 10 = 1 -> <<"s", "t">>
           [] n % 10 = 2 -> <<"n", "d">>
           [] n % 10 = 3 -> <<"r", "d">>
           [] OTHER -> <<"t", "h">>

\* The ordinal tokens: "1st", "2nd", "3rd", "4th", ...
OrdinalTokens == {toString(n) \o suffixOf(n) : n \in 1..MaxNumber}

\* The characters of the texts handed to _textToFileName
FileAlphabet == {"a", "3", "_", ".", "!", " ", "\t"} \cup Reserved

\* Every text of at most three characters
ShortTexts == UNION {[1..n -> FileAlphabet] : n \in 0..3}

\* Texts around the length limit, for _textToFileName only: a letter, with
\* another character at every k-th place
LongTexts ==
    {[i \in 1..n |-> IF i % k = 0 THEN c ELSE "a"] :
        n \in {maxLength - 1, maxLength, maxLength + 1, 2 * maxLength},
        k \in {1, 2, 3, 3 * maxLength},
        c \in {"_", " ", "/", "!"}}

Inputs ==
    Numerals \cup {Embed(numeral) : numeral \in Numerals} \cup OtherTexts
    \cup OrdinalTokens \cup ShortTexts \cup LongTexts

TextToFileName ==
    /\ last' = [op |-> "_textToFileName", text |-> last.text,
                result |-> _textToFileName(last.text)]
    /\ UNCHANGED <<settings, dirs, cache, calls, speech>>
    /\ UNCHANGED playerVars

ConvertNumbersToEnglish ==
    /\ last.text \notin LongTexts
    /\ \E voiceName \in Names \cup {""} :
        last' = [op |-> "_convertNumbersToEnglish", text |-> last.text,
                 voiceName |-> voiceName,
                 result |-> _convertNumbersToEnglish(last.text, voiceName)]
    /\ UNCHANGED <<settings, dirs, cache, calls, speech>>
    /\ UNCHANGED playerVars

TextUtilsConvertNumbersToEnglish ==
    /\ last.text \notin LongTexts
    /\ last' = [op |-> "convertNumbersToEnglish", text |-> last.text,
                result |-> convertNumbersToEnglish(last.text)]
    /\ UNCHANGED <<settings, dirs, cache, calls, speech>>
    /\ UNCHANGED playerVars

\* A text has been chosen; no function has been applied to it.
InitText ==
    /\ AudioPlayerInit
    /\ settings = defaultConfig
    /\ dirs = {}
    /\ cache = {}
    /\ calls = <<>>
    /\ speech = NoSpeech
    /\ \E text \in Inputs : last = [op |-> "input", text |-> text]

NextText ==
    \/ TextToFileName
    \/ ConvertNumbersToEnglish
    \/ TextUtilsConvertNumbersToEnglish

SpecText == InitText /\ [][NextText]_vars

\* C28: the file name made from any text is a valid single path segment: not
\* empty (the placeholder tts_audio when everything was stripped), at most
\* 100 characters long, without whitespace and without \ / : * ? " < > |.
C28_ValidFileName ==
    last.op = "_textToFileName" =>
        /\ last.result # <<>>
        /\ Len(last.result) <= 100
        /\ \A i \in 1..Len(last.result) :
              last.result[i] \notin {" ", "\t", "\\", "/", ":", "*", "?", "\"", "<", ">", "|"}
        /\ (\A i \in 1..Len(last.text) : last.text[i] \in Whitespace \cup Punctuation) =>
              last.result = <<"t", "t", "s", "_", "a", "u", "d", "i", "o">>

\* C28 witness: a text of more than 100 characters with "/" in it has been
\* cut to 100 characters.
C28_Witness ==
    /\ last.op = "_textToFileName"
    /\ Len(last.text) > 100
    /\ "/" \in Range(last.text)
    /\ Len(last.result) = 100
    /\ "_" \in Range(last.result)

RECURSIVE Cardinal(_)
\* The cardinal words of n, 0 <= n <= 9999, composed from the table with
\* "hundred" and "thousand"
Cardinal(n) ==
    IF n <= 20 THEN numberWords[n]
    ELSE IF n < 100
    THEN IF n % 10 = 0 THEN numberWords[n]
         ELSE numberWords[n - (n % 10)] \o sp \o numberWords[n % 10]
    ELSE IF n < 1000
    THEN numberWords[n \div 100] \o sp \o <<"h", "u", "n", "d", "r", "e", "d">>
         \o (IF n % 100 = 0 THEN <<>> ELSE sp \o Cardinal(n % 100))
    ELSE numberWords[n \div 1000] \o sp \o <<"t", "h", "o", "u", "s", "a", "n", "d">>
         \o (IF n % 1000 = 0 THEN <<>> ELSE sp \o Cardinal(n % 1000))

\* The digits of a text
DigitsOf(text) == SelectSeq(text, LAMBDA c : c \in Digits)

\* The last call expanded an English text.
ExpandedEnglish ==
    \/ last.op = "convertNumbersToEnglish"
    \/ last.op = "_convertNumbersToEnglish" /\ _isEnglishVoice(last.voiceName)

\* What a standalone numeral without leading zeros is to become
Expected(numeral) ==
    IF Len(numeral) <= 4 THEN Cardinal(IntOf(numeral)) ELSE numeral

\* C29: in an English text every standalone integer from 0 to 9999 becomes
\* exactly its cardinal words, and every integer from 10000 on is left as its
\* digit string.
C29_CardinalWords ==
    ExpandedEnglish /\ DigitsOf(last.text) # <<>>
    /\ stripZeros(DigitsOf(last.text)) = DigitsOf(last.text) =>
        LET numeral == DigitsOf(last.text)
        IN /\ last.text = numeral => last.result = Expected(numeral)
           /\ last.text = Embed(numeral) =>
                 last.result = <<"h", "i", "t", " ">> \o Expected(numeral) \o <<"!">>

\* C30: whether numerals and "+" are expanded does not depend on how the
\* voice is named: the same text gives the same result under every voice name.
C30_ExpansionNotByVoiceName ==
    last.op = "_convertNumbersToEnglish" /\ last.voiceName \in Names =>
        \A voiceName \in Names :
            _convertNumbersToEnglish(last.text, voiceName) = last.result

\* The ordinal form of a cardinal word
OrdinalForm(word) ==
    CASE word = <<"o", "n", "e">> -> <<"f", "i", "r", "s", "t">>
      [] word = <<"t", "w", "o">> -> <<"s", "e", "c", "o", "n", "d">>
      [] word = <<"t", "h", "r", "e", "e">> -> <<"t", "h", "i", "r", "d">>
      [] word = <<"f", "i", "v", "e">> -> <<"f", "i", "f", "t", "h">>
      [] word = <<"e", "i", "g", "h", "t">> -> <<"e", "i", "g", "h", "t", "h">>
      [] word = <<"n", "i", "n", "e">> -> <<"n", "i", "n", "t", "h">>
      [] word = <<"t", "w", "e", "l", "v", "e">> -> <<"t", "w", "e", "l", "f", "t", "h">>
      [] OTHER -> IF word[Len(word)] = "y"
                  THEN SubSeq(word, 1, Len(word) - 1) \o <<"i", "e", "t", "h">>
                  ELSE word \o <<"t", "h">>

\* Where the last word of a text starts
LastWordStart(text) ==
    LET spaces == {i \in 1..Len(text) : text[i] = " "}
    IN IF spaces = {} THEN 1 ELSE 1 + CHOOSE i \in spaces : \A j \in spaces : j <= i

\* The cardinal words of n with the last word in its ordinal form
Ordinal(n) ==
    LET words == Cardinal(n)
        k == LastWordStart(words)
    IN SubSeq(words, 1, k - 1) \o OrdinalForm(SubSeq(words, k, Len(words)))

\* "undefined" stands in the text.
HasUndefined(text) ==
    \E i \in 1..Len(text) - 8 :
        SubSeq(text, i, i + 8) = <<"u", "n", "d", "e", "f", "i", "n", "e", "d">>

\* C31: in an English text the ordinal token of every n from 1 to 9999
\* becomes the cardinal words of n with only the last word in its ordinal
\* form, and no produced text holds the word "undefined".
C31_OrdinalMirrorsCardinal ==
    ExpandedEnglish /\ last.text \in OrdinalTokens /\ Len(DigitsOf(last.text)) <= 4 =>
        /\ last.result = Ordinal(IntOf(DigitsOf(last.text)))
        /\ ~HasUndefined(last.result)

----------------------------------------------------------------------------
\* The Speech object

\* The lang argument of play: a language code as the caller writes it, or ""
\* (null)
LangArgs == {"", "EN", "ja"}

\* String.prototype.toLowerCase on the language codes
toLowerCase(str) ==
    CASE str = "EN" -> "en"
      [] str = "JA" -> "ja"
      [] OTHER -> str

\* The values of a voice map: the provider id, and the language the voice
\* speaks ("" when none is declared). What the client reports after its
\* construction is any voice object: the merge of Speech is checked against
\* every answer, also one that holds another value under a stored name.
VoiceConfigs == {[id |-> "id1", lang |-> ""], [id |-> "id2", lang |-> "JA"]}

\* The voice objects: a value for some of the names
VoiceObjects == UNION {[D -> VoiceConfigs] : D \in SUBSET Names}

\* mod.settings.onlineTTS: missing (the empty object stands for it), or an
\* object with the three fields that Speech looks at
StoredSettings ==
    {<<>>} \cup {obj \in [enabled : BOOLEAN, voices : VoiceObjects,
                          defaultVoice : Names \cup {""}] :
                    obj.defaultVoice = "" \/ obj.defaultVoice \in DOMAIN obj.voices}

\* params.ttsConfig: missing, or an object that switches synthesis on
TtsConfigs == {<<>>, [enabled |-> TRUE]}

\* Display texts: the empty text and a message
Messages == {"", "Boom"}

\* The keys and dungeon ids of a message; "" is null
Keys == {"", "boom"}

DungeonIds == {"", "d1"}

\* mod.i18nManager: missing, without a translation of the message, or with one
I18nManagers == {"none", "empty", "full"}

\* i18nManager.getTranslation(dungeonId, key, lang): the text in that
\* language, or "" (null) when there is none
getTranslation(i18n, dungeonId, key, lang) ==
    IF i18n = "full" /\ dungeonId = "d1" /\ key = "boom"
    THEN (IF lang = "ja" THEN "Bomu" ELSE "Boom!")
    ELSE ""

\* OnlineTTS.isEnabled() of the client that Speech is written against
isEnabled(tts) == tts.enabled

\* A Speech object after its constructor (19-27), with its surroundings:
\* the stored settings, the parameters, the display language, the
\* localization manager. `said` holds what the last play has handed to the
\* synthesis client and to the local voice, `promise` the state of the
\* promise of its speak call.
Speech(stored, ttsConfig, language, i18n) ==
    [onlineTTS |-> FALSE,
     tts |-> [enabled |-> FALSE, voices |-> <<>>, defaultVoice |-> ""],
     stored |-> stored, ttsConfig |-> ttsConfig, language |-> language, i18n |-> i18n,
     said |-> <<>>, promise |-> "none"]

\* this.__playLocalTTS(message): the local voice is asked to speak.
__playLocalTTS(self, message) ==
    [self EXCEPT !.said = Append(@, [op |-> "local", text |-> message])]

\* this.__onlineTTS.speak(text, lang, voice).catch(...)
onlineSpeak(self, text, lang, voice) ==
    [self EXCEPT !.said = Append(@, [op |-> "speak", text |-> text, lang |-> lang,
                                   voice |-> voice]),
               !.promise = "pending"]

\* voiceConfig.lang.toLowerCase(), or "" (null)
voiceLangOf(tts) ==
    IF tts.defaultVoice \in DOMAIN tts.voices
    THEN toLowerCase(tts.voices[tts.defaultVoice].lang)
    ELSE ""

\* Mutant of play_mismatch: without a translation the display text is spoken.
play_mismatchSpeaksText(self, text, voiceLang, key, dungeonId) ==
    LET ttsText == IF key # "" /\ dungeonId # "" /\ self.i18n # "none"
                   THEN getTranslation(self.i18n, dungeonId, key, voiceLang) ELSE ""
    IN IF ttsText # "" THEN onlineSpeak(self, ttsText, voiceLang, self.tts.defaultVoice)
       ELSE onlineSpeak(self, text, voiceLang, self.tts.defaultVoice)

\* play, where the language of the voice differs from the display language
\* (156-174): the translation is spoken, or nothing.
play_mismatch(self, text, voiceLang, key, dungeonId) ==
    LET ttsText == IF key # "" /\ dungeonId # "" /\ self.i18n # "none"
                   THEN getTranslation(self.i18n, dungeonId, key, voiceLang) ELSE ""
    IN IF ttsText # "" THEN onlineSpeak(self, ttsText, voiceLang, self.tts.defaultVoice)
       ELSE self

\* Speech.play(text, lang, key, dungeonId)
play_(self0, text, lang, key, dungeonId) ==
    LET self == [self0 EXCEPT !.said = <<>>]
        currentLang == toLowerCase(IF lang # "" THEN lang ELSE self.language)
        voiceLang == voiceLangOf(self.tts)
    IN IF text = "" THEN self
       ELSE IF self.onlineTTS /\ isEnabled(self.tts)
       THEN IF voiceLang # "" /\ voiceLang # currentLang
            THEN play_mismatch(self, text, voiceLang, key, dungeonId)
            ELSE onlineSpeak(self, text, IF voiceLang # "" THEN voiceLang ELSE currentLang,
                             self.tts.defaultVoice)
       ELSE __playLocalTTS(self, text)

\* Mutant of speakRejected: the handler falls back to the local voice.
speakRejected_fallback(self) ==
    __playLocalTTS([self EXCEPT !.promise = "rejected"], self.said[Len(self.said)].text)

\* The handler of .catch(): nothing is done.
speakRejected(self) == [self EXCEPT !.promise = "rejected"]

\* The fields of a settings object that the client takes over
clientSettings(tts, obj) ==
    [k \in DOMAIN tts |-> IF k \in DOMAIN obj THEN obj[k] ELSE tts[k]]

\* Mutant of mergeVoices: the detected value wins.
mergeVoices_detectedWins(detected, currentVoices) == spread(currentVoices, detected)

\* mergedVoices (77-82): the detected voices, each overwritten by the
\* voice that the settings hold under the same name
mergeVoices(detected, currentVoices) == spread(detected, currentVoices)

\* Speech.__configureOnlineTTS(). On the first call the client is made and
\* getConfig() returns what it has found: detectedVoices and
\* detectedDefault.
__configureOnlineTTS(self, detectedVoices, detectedDefault) ==
    LET stored == self.stored
        mergedSettings == spread(stored, self.ttsConfig)
        currentVoices == IF "voices" \in DOMAIN stored THEN stored.voices ELSE <<>>
        storedDefault == IF "defaultVoice" \in DOMAIN stored THEN stored.defaultVoice ELSE ""
    IN IF ~self.onlineTTS
       THEN LET made == [self EXCEPT !.onlineTTS = TRUE,
                                   !.tts = [clientSettings(self.tts, mergedSettings) EXCEPT
                                               !.voices = detectedVoices,
                                               !.defaultVoice = detectedDefault]]
            IN IF DOMAIN detectedVoices # {}
               THEN [made EXCEPT !.stored =
                        spread(stored,
                               [voices |-> mergeVoices(detectedVoices, currentVoices),
                                defaultVoice |-> IF detectedDefault # "" THEN detectedDefault
                                                 ELSE storedDefault])]
               ELSE made
       ELSE [self EXCEPT !.tts = clientSettings(self.tts, mergedSettings)]

\* Speech.updateOnlineTTSSettings(obj)
updateOnlineTTSSettings(self, obj) ==
    IF ~self.onlineTTS THEN self
    ELSE [self EXCEPT !.stored = spread(self.stored, obj),
                    !.tts = clientSettings(self.tts, obj)]

\* Speech.init(): the part that configures the synthesis client
SpeechInit ==
    /\ \E detectedVoices \in VoiceObjects, detectedDefault \in Names \cup {""} :
        /\ ~speech.onlineTTS =>
              detectedDefault = "" \/ detectedDefault \in DOMAIN detectedVoices
        /\ speech.onlineTTS => DOMAIN detectedVoices = {} /\ detectedDefault = ""
        /\ speech' = __configureOnlineTTS(speech, detectedVoices, detectedDefault)
        /\ last' = [op |-> "init"]
    /\ UNCHANGED <<settings, dirs, cache, calls>>
    /\ UNCHANGED playerVars

SpeechUpdateSettings ==
    /\ \E enabled \in BOOLEAN :
        /\ speech' = updateOnlineTTSSettings(speech, [enabled |-> enabled])
        /\ last' = [op |-> "updateOnlineTTSSettings", enabled |-> enabled]
    /\ UNCHANGED <<settings, dirs, cache, calls>>
    /\ UNCHANGED playerVars

SpeechPlay ==
    /\ \E text \in Messages, lang \in LangArgs, key \in Keys, dungeonId \in DungeonIds :
        /\ speech' = play_(speech, text, lang, key, dungeonId)
        /\ last' = [op |-> "play", text |-> text, lang |-> lang, key |-> key,
                    dungeonId |-> dungeonId]
    /\ UNCHANGED <<settings, dirs, cache, calls>>
    /\ UNCHANGED playerVars

\* The promise of the speak call is fulfilled.
SpeakResolved ==
    /\ speech.promise = "pending"
    /\ speech' = [speech EXCEPT !.promise = "resolved"]
    /\ UNCHANGED <<settings, dirs, cache, calls, last>>
    /\ UNCHANGED playerVars

\* The promise of the speak call is rejected: no cached audio, a failed
\* fetch, a client that is not available.
SpeakRejected ==
    /\ speech.promise = "pending"
    /\ speech' = speakRejected(speech)
    /\ UNCHANGED <<settings, dirs, cache, calls, last>>
    /\ UNCHANGED playerVars

InitSpeech ==
    /\ AudioPlayerInit
    /\ settings = defaultConfig
    /\ dirs = {}
    /\ cache = {}
    /\ calls = <<>>
    /\ last = NoCall
    /\ \E stored \in StoredSettings, ttsConfig \in TtsConfigs, i18n \in I18nManagers :
        speech = Speech(stored, ttsConfig, "en", i18n)

NextSpeech ==
    \/ SpeechInit
    \/ SpeechUpdateSettings
    \/ SpeechPlay
    \/ SpeakResolved
    \/ SpeakRejected

SpecSpeech == InitSpeech /\ [][NextSpeech]_vars

\* Online synthesis is enabled: there is a client, and it says so.
OnlineEnabled(self) == self.onlineTTS /\ isEnabled(self.tts)

\* What has been handed to the local voice
LocalSaid(self) == {i \in 1..Len(self.said) : self.said[i].op = "local"}

\* C24: while online synthesis is enabled, no step hands a text to the local
\* voice, whether the step is a play or the rejection of a speak call; the
\* local voice is used only when online synthesis is disabled.
C24_NoLocalWhileEnabled ==
    [][speech'.said # speech.said /\ LocalSaid(speech') # {} => ~OnlineEnabled(speech)]_vars

C24_Witness ==
    /\ OnlineEnabled(speech)
    /\ last.op = "play"
    /\ speech.promise = "rejected"
    /\ Len(speech.said) = 1
    /\ LocalSaid(speech) = {}

\* The play in `call` meets a default voice whose declared language is not
\* the display language.
LanguageDiffers(self, call) ==
    /\ call.op = "play"
    /\ call.text # ""
    /\ OnlineEnabled(self)
    /\ voiceLangOf(self.tts) # ""
    /\ voiceLangOf(self.tts) # toLowerCase(IF call.lang # "" THEN call.lang ELSE self.language)

\* The translation that the play in `call` can obtain, or ""
TranslationFor(self, call) ==
    IF call.key # "" /\ call.dungeonId # "" /\ self.i18n # "none"
    THEN getTranslation(self.i18n, call.dungeonId, call.key, voiceLangOf(self.tts))
    ELSE ""

\* C25: when the default voice has a declared language that differs from
\* the display language, a play hands to synthesis only the translation
\* for the language of the voice; without key, dungeon id, localization
\* manager or translation nothing is spoken, and the display text is never
\* handed to the voice.
C25_OnlyTranslationSpoken ==
    [][LanguageDiffers(speech, last') =>
          /\ speech'.said =
                IF TranslationFor(speech, last') # ""
                THEN <<[op |-> "speak", text |-> TranslationFor(speech, last'),
                        lang |-> voiceLangOf(speech.tts), voice |-> speech.tts.defaultVoice]>>
                ELSE <<>>
          /\ \A i \in 1..Len(speech'.said) : speech'.said[i].text # last'.text]_vars

C25_Witness ==
    /\ LanguageDiffers(speech, last)
    /\ speech.said = <<[op |-> "speak", text |-> "Bomu", lang |-> "ja",
                        voice |-> speech.tts.defaultVoice]>>

C25_WitnessSilent ==
    /\ LanguageDiffers(speech, last)
    /\ last.key = ""
    /\ speech.said = <<>>

\* The voices of a stored settings object
storedVoices(stored) == IF "voices" \in DOMAIN stored THEN stored.voices ELSE <<>>

\* C26: when the first configuration detects voices, the voice map written
\* back to the stored settings holds every voice of the stored settings with
\* its stored value, and a detected voice only under a name that the stored
\* settings did not hold.
C26_UserVoicesKept ==
    [][~speech.onlineTTS /\ speech'.onlineTTS /\ DOMAIN speech'.tts.voices # {} =>
          LET user == storedVoices(speech.stored)
              detected == speech'.tts.voices
              merged == storedVoices(speech'.stored)
          IN /\ DOMAIN merged = DOMAIN user \cup DOMAIN detected
             /\ \A name \in DOMAIN user : merged[name] = user[name]
             /\ \A name \in DOMAIN merged \ DOMAIN user : merged[name] = detected[name]]_vars

C26_Witness ==
    /\ last.op = "init"
    /\ speech.promise = "none"
    /\ DOMAIN speech.tts.voices = Names
    /\ DOMAIN storedVoices(speech.stored) = Names
    /\ \E name \in Names : speech.stored.voices[name] # speech.tts.voices[name]
    /\ \E name \in Names : speech.stored.voices[name] = speech.tts.voices[name]

----------------------------------------------------------------------------
\* The playback engine: progress

\* C32: when no worker exits unexpectedly and stop() is never called, every
\* job that queueAndPlay has put into the queue leaves it in the end, and its
\* line is written to a worker if its file exists, also when other jobs come
\* through play() directly.
C32_QueuedJobSubmitted ==
    \A j \in Jobs : (j \in Range(queue)) ~> (j \notin Range(queue) /\ (exists[j] => j \in Written))

----------------------------------------------------------------------------
\* The synthesis client: the cache and the configuration

\* The state after `new OnlineTTS({enabled: true, apiKey: ...})` on an empty
\* cache: no voice yet.
InitCache ==
    /\ AudioPlayerInit
    /\ settings = constructor([enabled |-> TRUE, apiKey |-> TRUE])
    /\ last = [op |-> "constructor", settings |-> [enabled |-> TRUE, apiKey |-> TRUE]]
    /\ dirs = _ensureCacheDirs({}, settings)
    /\ cache = {}
    /\ calls = <<>>
    /\ speech = NoSpeech

\* Voices are added, changed and deleted while audio is generated.
NextCache ==
    \/ SetVoice
    \/ DeleteVoice
    \/ SetDefaultVoice
    \/ GenerateAudio
    \/ ResponseEnd
    \/ ResponseStatus

SpecCache == InitCache /\ [][NextCache]_vars

\* C33: lookup and store use the same key: once generateAudio(text, voice)
\* has resolved, hasCachedAudio(text, voice) is true, for every text and
\* every voice argument, also an omitted or empty one.
C33_LookupFindsStored ==
    \A i \in 1..Len(calls) :
        calls[i].op = "generate" /\ calls[i].status = "resolved" =>
            hasCachedAudio(settings, cache, calls[i].text, calls[i].arg)

\* C34: every cache file in the directory of a voice was synthesized with
\* the provider id that is configured for that voice now, also after
\* setVoice has changed the id and after a request for a voice that is not
\* configured has used the id of the default voice.
C34_FileMadeWithConfiguredId ==
    \A f \in cache : f.id = voiceAt(settings, f.path[1])

\* C35: from the moment deleteVoice(V) has returned true, and as long as no
\* voice is added, the cache holds no file of V, also when a request for V
\* was on its way when V was deleted.
C35_NoFileOfDeletedVoice ==
    last.op = "deleteVoice" /\ last.result => \A f \in cache : f.path[1] # last.name

\* The default voice names a voice of the map, or the map is empty.
DefaultValid(s) == s.voices # <<>> => s.defaultVoice \in voiceNames(s)

\* C36: setVoice, deleteVoice, setDefaultVoice and updateSettings keep the
\* default voice valid: while the voice map is not empty, the default voice
\* is a name of the map; and the first voice added to an empty map becomes
\* the default voice.
C36_DefaultVoiceValid ==
    [][DefaultValid(settings) =>
          /\ DefaultValid(settings')
          /\ last'.op = "setVoice" /\ settings.voices = <<>> /\ settings'.voices # <<>> =>
                settings'.defaultVoice = last'.name]_vars

----------------------------------------------------------------------------
\* The commands of "onlinetts", on the Speech object of src/lib/speech.js

\* mod.settings.onlineTTS when the module starts: missing, the settings of a
\* fresh installation, or those of a user who has a voice.
StoredObjects ==
    {<<>>,
     [apiKey |-> FALSE, voices |-> <<>>, rate |-> 10, enabled |-> FALSE, defaultVoice |-> ""],
     [apiKey |-> TRUE, voices |-> <<[name |-> "Anna", id |-> "id1"]>>, rate |-> 10,
      enabled |-> TRUE, defaultVoice |-> "Anna"]}

\* Speech.updateOnlineTTSSettings(obj), the part on mod.settings.onlineTTS
\* (269-276); the part on the client is updateSettings.
storeSettings(self, obj) == [self EXCEPT !.stored = spread(@, obj)]

\* The object that addvoice hands to updateOnlineTTSSettings after
\* setVoice: { voices: onlineTTS.getVoices() }
addvoice_settings(s) == [voices |-> s.voices]

\* Speech.__configureOnlineTTS() of a Speech object that has its client:
\* the stored settings are applied to it again.
Reconfigure ==
    /\ settings' = updateSettings(settings, speech.stored)
    /\ dirs' = IF settings'.voices # settings.voices
               THEN _ensureCacheDirs(dirs, settings') ELSE dirs
    /\ last' = [op |-> "init"]
    /\ UNCHANGED <<cache, calls, speech>>
    /\ UNCHANGED playerVars

\* "onlinetts" without an argument
CommandToggle ==
    /\ LET obj == [enabled |-> ~settings.enabled]
       IN /\ speech' = storeSettings(speech, obj)
          /\ settings' = updateSettings(settings, obj)
    /\ last' = [op |-> "onlinetts", arg1 |-> "", arg2 |-> "", arg3 |-> ""]
    /\ UNCHANGED <<dirs, cache, calls>>
    /\ UNCHANGED playerVars

\* "onlinetts apikey <key>"
CommandApiKey ==
    /\ LET obj == [apiKey |-> TRUE, enabled |-> TRUE]
       IN /\ speech' = storeSettings(speech, obj)
          /\ settings' = updateSettings(settings, obj)
    /\ last' = [op |-> "onlinetts", arg1 |-> "apikey", arg2 |-> "key", arg3 |-> ""]
    /\ UNCHANGED <<dirs, cache, calls>>
    /\ UNCHANGED playerVars

\* "onlinetts voice <name>"
CommandVoice ==
    /\ \E arg2 \in Names :
        /\ IF voiceAt(settings, arg2) = "" THEN UNCHANGED <<settings, speech>>
           ELSE LET obj == [defaultVoice |-> arg2]
                IN /\ speech' = storeSettings(speech, obj)
                   /\ settings' = updateSettings(setDefaultVoice(settings, arg2), obj)
        /\ last' = [op |-> "onlinetts", arg1 |-> "voice", arg2 |-> arg2, arg3 |-> ""]
    /\ UNCHANGED <<dirs, cache, calls>>
    /\ UNCHANGED playerVars

\* "onlinetts addvoice <name> <id>"
CommandAddVoice ==
    /\ \E arg2 \in Names, arg3 \in Ids \ {""} :
        LET s1 == setVoice(settings, arg2, arg3)
            obj == addvoice_settings(s1)
        IN /\ speech' = storeSettings(speech, obj)
           /\ settings' = updateSettings(s1, obj)
           /\ dirs' = dirs \cup {arg2}
           /\ last' = [op |-> "onlinetts", arg1 |-> "addvoice", arg2 |-> arg2, arg3 |-> arg3]
    /\ UNCHANGED <<cache, calls>>
    /\ UNCHANGED playerVars

\* "onlinetts deletevoice <name>"
CommandDeleteVoice ==
    /\ \E arg2 \in Names :
        /\ IF voiceAt(settings, arg2) = "" \/ settings.defaultVoice = arg2
              \/ ~deleteVoice_ok(settings, arg2)
           THEN UNCHANGED <<settings, speech, cache>>
           ELSE LET s1 == deleteVoice(settings, arg2)
                    obj == [voices |-> s1.voices]
                IN /\ speech' = storeSettings(speech, obj)
                   /\ settings' = updateSettings(s1, obj)
                   /\ cache' = unlinkVoice(settings, cache, arg2)
        /\ last' = [op |-> "onlinetts", arg1 |-> "deletevoice", arg2 |-> arg2, arg3 |-> ""]
    /\ UNCHANGED <<dirs, calls>>
    /\ UNCHANGED playerVars

\* "onlinetts rate <number>"
CommandRate ==
    /\ \E arg2 \in Rates :
        LET s1 == setRate(settings, arg2)
            obj == [rate |-> s1.rate]
        IN /\ speech' = storeSettings(speech, obj)
           /\ settings' = updateSettings(s1, obj)
           /\ last' = [op |-> "onlinetts", arg1 |-> "rate", arg2 |-> arg2, arg3 |-> ""]
    /\ UNCHANGED <<dirs, cache, calls>>
    /\ UNCHANGED playerVars

\* The state after Speech.init() has made the client from the stored settings.
InitCommands ==
    /\ AudioPlayerInit
    /\ \E stored \in StoredObjects :
        /\ speech = [onlineTTS |-> TRUE, stored |-> stored]
        /\ settings = constructor(stored)
    /\ dirs = _ensureCacheDirs({}, settings)
    /\ cache = {}
    /\ calls = <<>>
    /\ last = [op |-> "init"]

NextCommands ==
    \/ Reconfigure
    \/ CommandToggle
    \/ CommandApiKey
    \/ CommandVoice
    \/ CommandAddVoice
    \/ CommandDeleteVoice
    \/ CommandRate

SpecCommands == InitCommands /\ [][NextCommands]_vars

\* C37: after every "onlinetts" command the stored settings and the client
\* agree: every one of apiKey, voices, defaultVoice, rate and enabled that is
\* stored has the value the client has, so that applying the stored settings
\* again leaves the client as it is.
C37_StoredAgreesWithClient ==
    last.op = "onlinetts" =>
        /\ \A k \in UserKeys \cap DOMAIN speech.stored : speech.stored[k] = settings[k]
        /\ updateSettings(settings, speech.stored) = settings

----------------------------------------------------------------------------
\* The paths of the cache

\* Paths are sequences of segments, a segment is a sequence of characters.
\* path.join(this.rootDir, this.settings.cacheDir), in a module directory
cacheRoot == <<<<"m", "o", "d">>, <<"t", "t", "s", "_", "c", "a", "c", "h", "e">>>>

\* The separators of a path
Separators == {"/", "\\"}

RECURSIVE split(_)
\* The segments of a string
split(str) ==
    IF \A i \in 1..Len(str) : str[i] \notin Separators THEN <<str>>
    ELSE LET i == CHOOSE i \in 1..Len(str) :
                      str[i] \in Separators /\ \A k \in 1..(i - 1) : str[k] \notin Separators
         IN <<SubSeq(str, 1, i - 1)>> \o split(SubSeq(str, i + 1, Len(str)))

RECURSIVE normalize(_, _)
\* path.normalize on the segments of an absolute path: empty segments and
\* "." are dropped, ".." takes the segment before it away.
normalize(done, segments) ==
    IF segments = <<>> THEN done
    ELSE LET seg == Head(segments)
         IN IF seg = <<>> \/ seg = <<".">> THEN normalize(done, Tail(segments))
            ELSE IF seg = <<".", ".">>
            THEN normalize(IF done = <<>> THEN done ELSE Front(done), Tail(segments))
            ELSE normalize(Append(done, seg), Tail(segments))

\* path.join(dir, str), dir being a normalized absolute path
join(dir, str) == normalize(dir, split(str))

\* The voice names handed to setVoice: any string is taken.
VoiceNames ==
    {<<"A", "n", "n", "a">>, <<".", ".">>, <<".", ".", "/", ".", ".", "/", "x">>,
     <<"a", "/", ".", ".", "/", "b">>, <<".">>, <<"v", "\\", "2">>}

\* The directory that setVoice makes, that deleteVoice reads and whose
\* entries it unlinks
voiceDir(name) == join(cacheRoot, name)

\* The file that is looked for, played and written: _getCacheFilePath with
\* the cache root in front
cacheFile(text, name) == join(voiceDir(name), _textToFileName(text) \o <<".", "m", "p", "3">>)

\* setVoice(name, id): _ensureDir(path.join(cachePath, name))
EnsureVoiceDir ==
    /\ last' = [op |-> "setVoice", name |-> last.name, text |-> last.text,
                path |-> voiceDir(last.name)]
    /\ UNCHANGED <<settings, dirs, cache, calls, speech>>
    /\ UNCHANGED playerVars

\* existsSync and writeFileSync of speak, generateAudio, hasCachedAudio and
\* the response handler
CacheFile ==
    /\ last' = [op |-> "_getCacheFilePath", name |-> last.name, text |-> last.text,
                path |-> cacheFile(last.text, last.name)]
    /\ UNCHANGED <<settings, dirs, cache, calls, speech>>
    /\ UNCHANGED playerVars

\* deleteVoice(name): the entries of the directory of the voice are unlinked.
UnlinkVoiceDir ==
    /\ \E entry \in {<<"a">>, <<"t", "t", "s", "_", "a", "u", "d", "i", "o", ".", "m", "p", "3">>} :
        last' = [op |-> "deleteVoice", name |-> last.name, text |-> last.text,
                 path |-> join(voiceDir(last.name), entry)]
    /\ UNCHANGED <<settings, dirs, cache, calls, speech>>
    /\ UNCHANGED playerVars

\* A voice name and a text have been chosen.
InitPaths ==
    /\ AudioPlayerInit
    /\ settings = defaultConfig
    /\ dirs = {}
    /\ cache = {}
    /\ calls = <<>>
    /\ speech = NoSpeech
    /\ \E name \in VoiceNames, text \in ShortTexts :
        last = [op |-> "input", name |-> name, text |-> text, path |-> cacheRoot]

NextPaths ==
    \/ EnsureVoiceDir
    \/ CacheFile
    \/ UnlinkVoiceDir

SpecPaths == InitPaths /\ [][NextPaths]_vars

\* The path lies inside the cache root.
Inside(path) ==
    Len(path) >= Len(cacheRoot) /\ SubSeq(path, 1, Len(cacheRoot)) = cacheRoot

\* C38: for every text and every voice name that setVoice takes, the
\* directory it makes, the file that is read and written, and the files
\* that deleteVoice unlinks lie inside the cache root.
C38_PathsInsideCacheRoot == Inside(last.path)


====
